---- MODULE Spec2Model ----
(***************************************************************************)
(* Display server (kernel/ds_rust) and window manager (kernel/wm_rust) of  *)
(* the compositing display stack, as state machines.                       *)
(*                                                                         *)
(* Conventions                                                             *)
(*  - A pointer into SURFACE_POOL / WINDOW_POOL is the slot index; the     *)
(*    null pointer is NULL.  Writing None into a pool slot leaves the      *)
(*    payload bytes in place, so a freed slot keeps its last record with   *)
(*    live = FALSE and a dangling pointer reads that record.               *)
(*  - A u32 is held as the i32 with the same 32 bits (so `as i32` and      *)
(*    `as u32` are the identity on the representation); unsigned           *)
(*    comparisons go through U32Lt / U32Gt.  Every sum and product the     *)
(*    bounded model forms has magnitude below 2^31, where two's-complement *)
(*    wrapping arithmetic and integer arithmetic agree on the bits.        *)
(*  - Pixel memories (BACKBUFFER, the framebuffer, BUFFER_POOL and the     *)
(*    cursor backup) are tracked cell by cell on framebuffers of at most   *)
(*    MaxTrackedPixels pixels; on larger framebuffers their domain is      *)
(*    empty and every pixel loop, written as a map over the domain, acts   *)
(*    on no tracked cell.                                                  *)
(***************************************************************************)
EXTENDS Integers, Sequences, FiniteSets, TLC

VARIABLES ds, wm, op, calls, gpu, fs

vars == <<ds, wm, op, calls, gpu, fs>>

(***************************************************************************)
(* Program constants                                                       *)
(***************************************************************************)
NULL == -1

N_SURF == 32
N_WIN == 32
MAX_BUFFER_SIZE == 480000
MAX_BACKBUFFER_SIZE == 8294400
DESKTOP_COLOR == 856343
CURSOR_WIDTH == 12
CURSOR_HEIGHT == 16
BACKUP_WIDTH == CURSOR_WIDTH + 2
BACKUP_HEIGHT == CURSOR_HEIGHT + 2
CURSOR_COLOR == 16777215
CURSOR_OUTLINE_COLOR == 0
CURSOR_BITMAP ==
  <<3072, 3584, 3840, 3968, 4032, 4064, 4080, 4088,
    4064, 4064, 3456, 3264, 2144, 96, 48, 48>>

QUEUE_SIZE == 64

MAX_FILES == 16
MAX_FILENAME_LENGTH == 32
MAX_FILE_SIZE == 1024

WINDOW_MOVABLE == 1
WINDOW_CLOSABLE == 2
WINDOW_RESIZABLE == 4
MAX_WIDTH == 800
MAX_HEIGHT == 600
RESIZE_BORDER == 8
MIN_WIDTH == 100
MIN_HEIGHT == 100
TITLE_BAR_HEIGHT == 20
INITIAL_MIN_Z_ORDER == -1000
WINDOW_BACKGROUND == 2960685

(***************************************************************************)
(* Bounds of the model                                                     *)
(***************************************************************************)
\* framebuffers with at most this many pixels are tracked pixel by pixel
MaxTrackedPixels == 64
\* tracked cells of each surface buffer on a tracked framebuffer
MaxBufCells == 4
\* live windows the window-manager specification creates
MaxWindows == 2
\* calls a behaviour of the window-manager specification makes
MaxCalls == 4
\* surfaces the pixel specification creates
MaxSurfaces == 2
\* calls of gpu_submit_command the command-ring specification interleaves
\* with the consumer
MaxCommands == 3

(***************************************************************************)
(* Integer helpers                                                         *)
(***************************************************************************)
Min(a, b) == IF a < b THEN a ELSE b
Max(a, b) == IF a > b THEN a ELSE b

\* unsigned comparison of two u32 held as i32 bit patterns
U32Lt(a, b) ==
  IF (a < 0) = (b < 0) THEN a < b ELSE b < 0
U32Gt(a, b) == U32Lt(b, a)

\* Rust `a * b` on two u32 held as i32 bit patterns: `value` is the product
\* modulo 2^32 (what a build without overflow checks computes), `overflows`
\* tells that the product does not fit in a u32 (a build with overflow
\* checks panics).  The product is taken on 16-bit halves, and those on 8-bit
\* pieces, so that no intermediate result leaves the i32 range.
MulU32(a, b) ==
  LET Lo16(v) == v % 65536
      Hi16(v) == (v \div 65536) % 65536
      \* (x * y) % 2^16 and (x * y) \div 2^16 for 16-bit x and y
      MulLo16(x, y) ==
        (((((x \div 256) * y) % 256) * 256) + ((x % 256) * y)) % 65536
      MulHi16(x, y) == ((x \div 256) * y + ((x % 256) * y) \div 256) \div 256
      lo == MulLo16(Lo16(a), Lo16(b))
      carry == MulHi16(Lo16(a), Lo16(b)) + MulLo16(Hi16(a), Lo16(b))
               + MulLo16(Lo16(a), Hi16(b))
      hi == carry % 65536
  IN [value |-> (IF hi >= 32768 THEN hi - 65536 ELSE hi) * 65536 + lo,
      overflows |-> \/ Hi16(a) # 0 /\ Hi16(b) # 0
                    \/ MulHi16(Hi16(a), Lo16(b)) # 0
                    \/ MulHi16(Lo16(a), Hi16(b)) # 0
                    \/ carry >= 65536]

\* Rust `a + b` on two i32: `value` is the sum modulo 2^32 (what a build
\* without overflow checks computes), `overflows` tells that the sum does not
\* fit in an i32 (a build with overflow checks panics).  No intermediate
\* result leaves the i32 range.
AddI32(a, b) ==
  IF a >= 0 /\ b > 2147483647 - a
  THEN [value |-> ((a - 2147483647 - 1) + b) - 2147483647 - 1, overflows |-> TRUE]
  ELSE IF a < 0 /\ b < (-2147483647 - 1) - a
  THEN [value |-> ((a + 2147483647 + 1) + b) + 2147483647 + 1, overflows |-> TRUE]
  ELSE [value |-> a + b, overflows |-> FALSE]

\* Rust `/` on signed integers truncates toward zero
DivTrunc(a, b) ==
  IF a >= 0 THEN a \div b ELSE -((-a) \div b)

\* bit `k` of a non-negative integer
Bit(v, k) == (v \div (2 ^ k)) % 2

SeqRemoveAt(s, i) ==
  [k \in 1..(Len(s) - 1) |-> IF k < i THEN s[k] ELSE s[k + 1]]

SeqIndexOf(s, e) ==
  IF \E i \in 1..Len(s) : s[i] = e
  THEN CHOOSE i \in 1..Len(s) : s[i] = e /\ \A k \in 1..(i - 1) : s[k] # e
  ELSE 0

(***************************************************************************)
(* DirtyRect                                                               *)
(***************************************************************************)
DirtyRect(x, y, width, height, valid) ==
  [x |-> x, y |-> y, width |-> width, height |-> height, valid |-> valid]

DirtyRect_new == DirtyRect(0, 0, 0, 0, FALSE)

\* `width as i32` and `(right - left) as u32` keep the bit pattern; the sums
\* and differences are those of a build without overflow checks
DirtyRect_union(self, other) ==
  IF ~other.valid THEN self
  ELSE IF ~self.valid THEN other
  ELSE LET Sub(a, b) ==
             IF b = -2147483647 - 1
             THEN AddI32(AddI32(a, 2147483647).value, 1).value
             ELSE AddI32(a, -b).value
           left == Min(self.x, other.x)
           top == Min(self.y, other.y)
           right == Max(AddI32(self.x, self.width).value,
                        AddI32(other.x, other.width).value)
           bottom == Max(AddI32(self.y, self.height).value,
                         AddI32(other.y, other.height).value)
       IN DirtyRect(left, top, Sub(right, left), Sub(bottom, top), TRUE)

\* a corner sum `x + width as i32` or `y + height as i32` of the rectangle
\* does not fit in an i32
CornerOverflows(self) ==
  \/ AddI32(self.x, self.width).overflows
  \/ AddI32(self.y, self.height).overflows

\* a clear() that leaves the validity bit as it is
DirtyRect_clear_keeping_valid(self) == self

DirtyRect_clear(self) == [self EXCEPT !.valid = FALSE]

(***************************************************************************)
(* Display server                                                          *)
(***************************************************************************)
Surface(id, x, y, width, height, z_order) ==
  [live |-> TRUE, id |-> id, x |-> x, y |-> y, width |-> width,
   height |-> height, buffer |-> id, z_order |-> z_order]

\* a pool slot that has never held a surface
NoSurface ==
  [live |-> FALSE, id |-> 0, x |-> 0, y |-> 0, width |-> 0,
   height |-> 0, buffer |-> NULL, z_order |-> 0]

TrackedFb(fb) == fb.width * fb.height <= MaxTrackedPixels

DisplayServer_new(fb) ==
  [framebuffer |-> fb,
   surfaces |-> <<>>,
   SURFACE_POOL |-> [i \in 0..(N_SURF - 1) |-> NoSurface],
   desktop_color |-> DESKTOP_COLOR,
   backbuffer_width |-> fb.width,
   backbuffer_height |-> fb.height,
   backbuffer_initialized |-> FALSE,
   dirty_rect |-> DirtyRect_new,
   full_redraw |-> TRUE,
   desktop_cleared |-> FALSE,
   mouse_x |-> 0,
   mouse_y |-> 0,
   last_cursor_x |-> -1,
   last_cursor_y |-> -1,
   cursor_backup |->
     IF TrackedFb(fb) THEN [i \in 0..(BACKUP_WIDTH * BACKUP_HEIGHT - 1) |-> 0]
     ELSE <<>>,
   cursor_backup_valid |-> FALSE,
   has_wallpaper |-> FALSE,
   BACKBUFFER |->
     IF TrackedFb(fb) THEN [i \in 0..(fb.width * fb.height - 1) |-> 0] ELSE <<>>,
   fb_mem |->
     IF TrackedFb(fb) THEN [i \in 0..(fb.width * fb.height - 1) |-> 0] ELSE <<>>,
   BUFFER_POOL |->
     IF TrackedFb(fb)
     THEN [s \in 0..(N_SURF - 1) |-> [i \in 0..(MaxBufCells - 1) |-> 0]]
     ELSE <<>>,
   painted |-> <<>>]

surface_count(d) == Len(d.surfaces)

mark_dirty(d, x, y, width, height) ==
  [d EXCEPT !.dirty_rect = DirtyRect_union(@, DirtyRect(x, y, width, height, TRUE))]

\* a sort step that never swaps
SortNoSwap(d, s, j) == s

\* one inner-loop step of the bubble sort: compare cells j and j+1 (1-based)
SortSwapStep(d, s, j) ==
  IF d.SURFACE_POOL[s[j]].z_order > d.SURFACE_POOL[s[j + 1]].z_order
  THEN [s EXCEPT ![j] = s[j + 1], ![j + 1] = s[j]]
  ELSE s

\* the inner loop: the steps for cells j .. last, in that order
RECURSIVE SortInner(_, _, _, _)
SortInner(d, s, j, last) ==
  IF j > last THEN s ELSE SortSwapStep(d, SortInner(d, s, j, last - 1), last)

RECURSIVE SortOuter(_, _, _)
SortOuter(d, s, i) ==
  IF i >= Len(s) THEN s
  ELSE SortOuter(d, SortInner(d, s, 1, Len(s) - i - 1), i + 1)

sort_surfaces_by_z_order(d) ==
  [d EXCEPT !.surfaces = SortOuter(d, d.surfaces, 0)]

FreeSurfaceSlots(d) == {i \in 0..(N_SURF - 1) : ~d.SURFACE_POOL[i].live}

\* returns the new display server and the surface pointer (NULL on failure)
create_surface(d, x, y, width, height, z_order) ==
  IF surface_count(d) >= 32 THEN [ds |-> d, ret |-> NULL]
  ELSE IF FreeSurfaceSlots(d) = {} THEN [ds |-> d, ret |-> NULL]
  ELSE LET slot == CHOOSE i \in FreeSurfaceSlots(d) :
                     \A k \in FreeSurfaceSlots(d) : i <= k
       IN IF U32Gt(MulU32(width, height).value, MAX_BUFFER_SIZE)
          THEN [ds |-> d, ret |-> NULL]
          ELSE LET d1 == [d EXCEPT
                            !.SURFACE_POOL[slot] =
                               Surface(slot, x, y, width, height, z_order),
                            !.surfaces = Append(@, slot)]
               IN [ds |-> sort_surfaces_by_z_order(d1), ret |-> slot]

destroy_surface(d, surface) ==
  LET s == d.SURFACE_POOL[surface]
      d1 == mark_dirty(d, s.x, s.y, s.width, s.height)
      i == SeqIndexOf(d1.surfaces, surface)
  IN IF i = 0 THEN d1
     ELSE [d1 EXCEPT
             !.surfaces = SeqRemoveAt(@, i),
             !.SURFACE_POOL =
                IF s.id < 32 THEN [@ EXCEPT ![s.id].live = FALSE] ELSE @]

set_surface_position(d, surface, x, y) ==
  LET s == d.SURFACE_POOL[surface]
      d1 == [d EXCEPT !.SURFACE_POOL[surface].x = x,
                      !.SURFACE_POOL[surface].y = y]
  IN mark_dirty(mark_dirty(d1, s.x, s.y, s.width, s.height),
                x, y, s.width, s.height)

set_surface_z_order(d, surface, z_order) ==
  LET d1 == [d EXCEPT !.SURFACE_POOL[surface].z_order = z_order]
      s == d1.SURFACE_POOL[surface]
  IN sort_surfaces_by_z_order(mark_dirty(d1, s.x, s.y, s.width, s.height))

set_surface_size(d, surface, width, height) ==
  LET s == d.SURFACE_POOL[surface]
  IN IF U32Gt(MulU32(width, height).value, MAX_BUFFER_SIZE) THEN d
     ELSE LET d1 == [d EXCEPT !.SURFACE_POOL[surface].width = width,
                              !.SURFACE_POOL[surface].height = height]
          IN mark_dirty(mark_dirty(d1, s.x, s.y, s.width, s.height),
                        s.x, s.y, width, height)

get_surface_buffer(d, surface) == d.SURFACE_POOL[surface].buffer

(***************************************************************************)
(* Display server: composition into the backbuffer                         *)
(***************************************************************************)
PixX(d, i) == i % d.backbuffer_width
PixY(d, i) == i \div d.backbuffer_width

clear_backbuffer(d) ==
  IF d.backbuffer_width * d.backbuffer_height > MAX_BACKBUFFER_SIZE THEN d
  ELSE [d EXCEPT !.BACKBUFFER = [i \in DOMAIN @ |-> d.desktop_color]]

\* has_wallpaper is never set, so only the solid-colour branch is taken
render_desktop_to_backbuffer(d, dirty) ==
  IF ~dirty.valid THEN d
  ELSE LET start_x == Max(dirty.x, 0)
           start_y == Max(dirty.y, 0)
           end_x == Max(Min(AddI32(dirty.x, dirty.width).value, d.backbuffer_width), 0)
           end_y == Max(Min(AddI32(dirty.y, dirty.height).value, d.backbuffer_height), 0)
       IN [d EXCEPT !.BACKBUFFER =
             [i \in DOMAIN @ |->
                IF /\ PixX(d, i) >= start_x /\ PixX(d, i) < end_x
                   /\ PixY(d, i) >= start_y /\ PixY(d, i) < end_y
                THEN d.desktop_color ELSE @[i]]]

surface_overlaps_dirty(d, surface, dirty) ==
  IF ~dirty.valid THEN FALSE
  ELSE LET s == d.SURFACE_POOL[surface]
       IN ~(\/ s.x + s.width <= dirty.x
            \/ s.x >= AddI32(dirty.x, dirty.width).value
            \/ s.y + s.height <= dirty.y
            \/ s.y >= AddI32(dirty.y, dirty.height).value)

\* `x as usize` of a negative i32 is above every backbuffer dimension, so
\* saturating_sub gives 0; a u32 whose top bit is set is above it as well
VisibleWidth(d, s) ==
  IF s.x < 0 THEN 0
  ELSE IF s.width < 0 THEN Max(d.backbuffer_width - s.x, 0)
  ELSE Min(s.width, Max(d.backbuffer_width - s.x, 0))

\* rows the loop reaches before `bb_y >= bb_height` breaks it
VisibleRows(d, s) ==
  IF s.y < 0 THEN 0
  ELSE IF s.height < 0 THEN Max(d.backbuffer_height - s.y, 0)
  ELSE Min(s.height, Max(d.backbuffer_height - s.y, 0))

CopiedPixels(d, s) == VisibleWidth(d, s) * VisibleRows(d, s)

render_surface_to_backbuffer(d, surface) ==
  LET s == d.SURFACE_POOL[surface]
      vw == VisibleWidth(d, s)
      vr == VisibleRows(d, s)
  IN IF s.buffer = NULL THEN d
     ELSE [d EXCEPT
             !.BACKBUFFER =
                [i \in DOMAIN @ |->
                   IF /\ PixY(d, i) >= s.y /\ PixY(d, i) < s.y + vr
                      /\ PixX(d, i) >= s.x /\ PixX(d, i) < s.x + vw
                   THEN d.BUFFER_POOL[s.buffer]
                          [(PixY(d, i) - s.y) * s.width + (PixX(d, i) - s.x)]
                   ELSE @[i]],
             !.painted = Append(@, [surface |-> surface, pixels |-> vw * vr])]

OnBackbuffer(d, px, py) ==
  /\ px >= 0 /\ py >= 0
  /\ px < d.backbuffer_width /\ py < d.backbuffer_height

save_cursor_background_from_backbuffer(d, x, y) ==
  [d EXCEPT
     !.cursor_backup =
        [k \in DOMAIN @ |->
           LET row == k \div BACKUP_WIDTH
               col == k % BACKUP_WIDTH
               px == x + col - 1
               py == y + row - 1
           IN IF OnBackbuffer(d, px, py)
              THEN d.BACKBUFFER[py * d.backbuffer_width + px]
              ELSE d.desktop_color],
     !.cursor_backup_valid = TRUE]

InEnvelope(x, y, px, py) ==
  /\ px >= x - 1 /\ px <= x + CURSOR_WIDTH
  /\ py >= y - 1 /\ py <= y + CURSOR_HEIGHT

clear_cursor_from_backbuffer(d, x, y) ==
  IF ~d.cursor_backup_valid
  THEN [d EXCEPT !.BACKBUFFER =
          [i \in DOMAIN @ |->
             IF InEnvelope(x, y, PixX(d, i), PixY(d, i))
             THEN d.desktop_color ELSE @[i]]]
  ELSE [d EXCEPT
          !.BACKBUFFER =
             [i \in DOMAIN @ |->
                IF InEnvelope(x, y, PixX(d, i), PixY(d, i))
                THEN d.cursor_backup[(PixY(d, i) - y + 1) * BACKUP_WIDTH
                                     + (PixX(d, i) - x + 1)]
                ELSE @[i]],
          !.cursor_backup_valid = FALSE]

\* bit (11 - col) of row `row` of the cursor bitmap
CursorLit(row, col) ==
  /\ row >= 0 /\ row < CURSOR_HEIGHT
  /\ col >= 0 /\ col < CURSOR_WIDTH
  /\ Bit(CURSOR_BITMAP[row + 1], 11 - col) = 1

CursorOutline(row, col) ==
  \E dy \in -1..1 : \E dx \in -1..1 :
     /\ ~(dx = 0 /\ dy = 0)
     /\ CursorLit(row - dy, col - dx)

MouseOnScreen(d) ==
  /\ d.mouse_x >= 0 /\ d.mouse_y >= 0
  /\ d.mouse_x < d.backbuffer_width
  /\ d.mouse_y < d.backbuffer_height

\* the outline pass runs to completion before the white pass
DrawCursor(d, x, y) ==
  [d EXCEPT !.BACKBUFFER =
     [i \in DOMAIN @ |->
        LET row == PixY(d, i) - y
            col == PixX(d, i) - x
        IN IF CursorLit(row, col) THEN CURSOR_COLOR
           ELSE IF CursorOutline(row, col) THEN CURSOR_OUTLINE_COLOR
           ELSE @[i]]]

render_cursor_to_backbuffer(d) ==
  LET x == d.mouse_x
      y == d.mouse_y
      \* the cursor moved: restore the saved background at the old position
      Restored ==
        IF /\ d.last_cursor_x >= 0 /\ d.last_cursor_y >= 0
           /\ (d.last_cursor_x # x \/ d.last_cursor_y # y)
        THEN mark_dirty(
               clear_cursor_from_backbuffer(d, d.last_cursor_x, d.last_cursor_y),
               d.last_cursor_x - 1, d.last_cursor_y - 1,
               CURSOR_WIDTH + 2, CURSOR_HEIGHT + 2)
        ELSE d
      \* save the background at the new position, then draw
      Drawn(d1) ==
        IF MouseOnScreen(d1)
        THEN [mark_dirty(
                DrawCursor(save_cursor_background_from_backbuffer(d1, x, y), x, y),
                x - 1, y - 1, CURSOR_WIDTH + 2, CURSOR_HEIGHT + 2)
              EXCEPT !.last_cursor_x = x, !.last_cursor_y = y]
        ELSE d1
  IN Drawn(Restored)

\* gpu_blit and the CPU fallback copy the same rows; pitch is in bytes
copy_backbuffer_to_framebuffer(d, dirty) ==
  IF ~dirty.valid THEN d
  ELSE LET fb == d.framebuffer
           fb_pitch == fb.pitch \div 4
           start_x == Max(dirty.x, 0)
           start_y == Max(dirty.y, 0)
           end_x == Max(Min(AddI32(dirty.x, dirty.width).value, fb.width), 0)
           end_y == Max(Min(AddI32(dirty.y, dirty.height).value, fb.height), 0)
       IN IF end_x - start_x = 0 \/ end_y - start_y = 0 THEN d
          ELSE [d EXCEPT !.fb_mem =
                  [i \in DOMAIN @ |->
                     LET fx == i % fb_pitch
                         fy == i \div fb_pitch
                     IN IF /\ fx >= start_x /\ fx < end_x
                           /\ fy >= start_y /\ fy < end_y
                        THEN d.BACKBUFFER[fy * d.backbuffer_width + fx]
                        ELSE @[i]]]

RECURSIVE RenderSurfaces(_, _, _)
RenderSurfaces(d, dirty, i) ==
  IF i > Len(d.surfaces) THEN d
  ELSE RenderSurfaces(
         IF surface_overlaps_dirty(d, d.surfaces[i], dirty)
         THEN render_surface_to_backbuffer(d, d.surfaces[i]) ELSE d,
         dirty, i + 1)

\* the dirty rectangle the frame flushes: the rectangle taken before the
\* cursor pass merged with the new cursor area
FlushRect(d, dirty_rect_copy) ==
  IF MouseOnScreen(d)
  THEN LET cursor_x == Max(d.mouse_x - 1, 0)
           cursor_y == Max(d.mouse_y - 1, 0)
           cursor_w == CURSOR_WIDTH + 2
           cursor_h == CURSOR_HEIGHT + 2
       IN IF dirty_rect_copy.valid
          THEN LET min_x == Min(dirty_rect_copy.x, cursor_x)
                   min_y == Min(dirty_rect_copy.y, cursor_y)
                   max_x == Max(AddI32(dirty_rect_copy.x, dirty_rect_copy.width).value,
                                cursor_x + cursor_w)
                   max_y == Max(AddI32(dirty_rect_copy.y, dirty_rect_copy.height).value,
                                cursor_y + cursor_h)
               IN DirtyRect(min_x, min_y, max_x - min_x, max_y - min_y, TRUE)
          ELSE DirtyRect(cursor_x, cursor_y, cursor_w, cursor_h, TRUE)
  ELSE dirty_rect_copy

render(d) ==
  LET Initialized ==
        IF ~d.backbuffer_initialized
        THEN [d EXCEPT !.backbuffer_width = d.framebuffer.width,
                       !.backbuffer_height = d.framebuffer.height,
                       !.backbuffer_initialized = TRUE,
                       !.full_redraw = TRUE]
        ELSE d
      \* full redraw: clear the backbuffer and make the whole screen dirty
      Redrawn(d0) ==
        IF d0.full_redraw \/ ~d0.desktop_cleared
        THEN [clear_backbuffer(d0) EXCEPT
                !.desktop_cleared = TRUE,
                !.full_redraw = FALSE,
                !.dirty_rect = DirtyRect(0, 0, d0.backbuffer_width,
                                         d0.backbuffer_height, TRUE)]
        ELSE d0
      \* desktop and surfaces over the dirty rectangle
      Composed(d1) ==
        IF d1.dirty_rect.valid
        THEN RenderSurfaces(
               [render_desktop_to_backbuffer(d1, d1.dirty_rect) EXCEPT
                  !.painted = <<>>],
               d1.dirty_rect, 1)
        ELSE [d1 EXCEPT !.painted = <<>>]
      \* the cursor pass, then dirty_rect := dirty_rect_copy merged with the
      \* new cursor area
      Merged(d4, dirty_rect_copy) ==
        [d4 EXCEPT !.dirty_rect = FlushRect(d4, dirty_rect_copy)]
      WithCursor(d3, dirty_rect_copy) ==
        Merged(render_cursor_to_backbuffer(d3), dirty_rect_copy)
      \* the flush of the dirty rectangle, and its clearing
      Flushed(d5) ==
        [(IF d5.dirty_rect.valid
          THEN copy_backbuffer_to_framebuffer(d5, d5.dirty_rect) ELSE d5)
         EXCEPT !.dirty_rect = DirtyRect_clear(@)]
      Frame(d1) == Flushed(WithCursor(Composed(d1), d1.dirty_rect))
  IN Frame(Redrawn(Initialized))

update_cursor_position(d, x, y) ==
  LET cursor_moved == d.mouse_x # x \/ d.mouse_y # y
      d1 == IF cursor_moved /\ d.last_cursor_x >= 0 /\ d.last_cursor_y >= 0
            THEN mark_dirty(d, d.last_cursor_x - 1, d.last_cursor_y - 1,
                            CURSOR_WIDTH + 2, CURSOR_HEIGHT + 2)
            ELSE d
  IN mark_dirty([d1 EXCEPT !.mouse_x = x, !.mouse_y = y],
                x - 1, y - 1, CURSOR_WIDTH + 2, CURSOR_HEIGHT + 2)

(***************************************************************************)
(* Window manager.  A state `st` is the pair [wm, ds]; each operation maps *)
(* a state to the state after the call, display-server calls included.     *)
(***************************************************************************)
RE_None == "None"
RE_Top == "Top"
RE_Bottom == "Bottom"
RE_Left == "Left"
RE_Right == "Right"
RE_TopLeft == "TopLeft"
RE_TopRight == "TopRight"
RE_BottomLeft == "BottomLeft"
RE_BottomRight == "BottomRight"

\* a pool slot that has never held a window
NoWindow ==
  [live |-> FALSE, id |-> 0, x |-> 0, y |-> 0, width |-> 0, height |-> 0,
   title |-> <<>>, flags |-> 0, focused |-> FALSE, invalidated |-> FALSE,
   buffer |-> NULL, surface |-> NULL, z_order |-> 0,
   minimized |-> FALSE, maximized |-> FALSE,
   orig_x |-> 0, orig_y |-> 0, orig_width |-> 0, orig_height |-> 0]

WindowManager_new(fb) ==
  [framebuffer |-> fb,
   windows |-> <<>>,
   WINDOW_POOL |-> [i \in 0..(N_WIN - 1) |-> NoWindow],
   focused_window |-> NULL,
   dragging_window |-> NULL,
   drag_offset_x |-> 0,
   drag_offset_y |-> 0,
   resizing_window |-> NULL,
   resize_edge |-> RE_None,
   resize_start_x |-> 0,
   resize_start_y |-> 0,
   resize_start_width |-> 0,
   resize_start_height |-> 0,
   last_mouse_button |-> FALSE,
   next_z_order |-> 0,
   min_z_order |-> INITIAL_MIN_Z_ORDER]

window_count(st) == Len(st.wm.windows)

Win(st, window) == st.wm.WINDOW_POOL[window]

\* a flag test that finds every flag set
HasFlagAlways(flags, bit) == TRUE

HasFlag(flags, bit) == (flags \div bit) % 2 = 1

\* ds_mark_dirty of the rectangle of the window `window`
MarkWindowDirty(st, window) ==
  [st EXCEPT !.ds = mark_dirty(@, Win(st, window).x, Win(st, window).y,
                               Win(st, window).width, Win(st, window).height)]

\* a raise that reuses the z-order handed out last
bring_to_front_reusing_z(st, window) ==
  LET i == SeqIndexOf(st.wm.windows, window)
      z == st.wm.next_z_order - 1
  IN IF i = 0 THEN st
     ELSE MarkWindowDirty(
            [st EXCEPT
               !.wm.windows = Append(SeqRemoveAt(@, i), window),
               !.wm.WINDOW_POOL[window].z_order = z,
               !.ds = set_surface_z_order(@, Win(st, window).surface, z),
               !.wm.WINDOW_POOL[window].invalidated = TRUE],
            window)

bring_to_front(st, window) ==
  LET i == SeqIndexOf(st.wm.windows, window)
      z == st.wm.next_z_order
  IN IF i = 0 THEN st
     ELSE MarkWindowDirty(
            [st EXCEPT
               !.wm.windows = Append(SeqRemoveAt(@, i), window),
               !.wm.WINDOW_POOL[window].z_order = z,
               !.wm.next_z_order = z + 1,
               !.ds = set_surface_z_order(@, Win(st, window).surface, z),
               !.wm.WINDOW_POOL[window].invalidated = TRUE],
            window)

FreeWindowSlots(st) == {i \in 0..(N_WIN - 1) : ~st.wm.WINDOW_POOL[i].live}

\* bytes of the title up to the first 63
CopyTitle(title) == SubSeq(title, 1, Min(Len(title), 63))

\* a create_window without the capacity checks
create_window_unguarded(st, title, x, y, width, height, flags) ==
    LET slot == IF FreeWindowSlots(st) = {} THEN 0
                ELSE CHOOSE i \in FreeWindowSlots(st) :
                       \A k \in FreeWindowSlots(st) : i <= k
        z_order == st.wm.next_z_order
        \* s1: the state after next_z_order += 1; cs: what ds_create_surface gave
        WithSurface(s1, cs) ==
          IF cs.ret = NULL THEN [st |-> [s1 EXCEPT !.ds = cs.ds], ret |-> NULL]
          ELSE IF get_surface_buffer(cs.ds, cs.ret) = NULL
          THEN [st |-> [s1 EXCEPT !.ds = destroy_surface(cs.ds, cs.ret)],
                ret |-> NULL]
          ELSE
            [st |-> bring_to_front(
                      [s1 EXCEPT
                         !.ds = cs.ds,
                         !.wm.WINDOW_POOL[slot] =
                            [live |-> TRUE, id |-> slot, x |-> x, y |-> y,
                             width |-> width, height |-> height,
                             title |-> CopyTitle(title), flags |-> flags,
                             focused |-> TRUE, invalidated |-> TRUE,
                             buffer |-> get_surface_buffer(cs.ds, cs.ret),
                             surface |-> cs.ret,
                             z_order |-> z_order,
                             minimized |-> FALSE, maximized |-> FALSE,
                             orig_x |-> x, orig_y |-> y,
                             orig_width |-> width, orig_height |-> height],
                         !.wm.windows = Append(@, slot),
                         !.wm.focused_window = slot],
                      slot),
             ret |-> slot]
    IN WithSurface([st EXCEPT !.wm.next_z_order = z_order + 1],
                   create_surface(st.ds, x, y, width, height, z_order))

\* returns the new state and the window pointer (NULL on failure)
create_window(st, title, x, y, width, height, flags) ==
  IF window_count(st) >= 32 THEN [st |-> st, ret |-> NULL]
  ELSE IF FreeWindowSlots(st) = {} THEN [st |-> st, ret |-> NULL]
  ELSE
    LET slot == CHOOSE i \in FreeWindowSlots(st) :
                  \A k \in FreeWindowSlots(st) : i <= k
        z_order == st.wm.next_z_order
        \* s1: the state after next_z_order += 1; cs: what ds_create_surface gave
        WithSurface(s1, cs) ==
          IF cs.ret = NULL THEN [st |-> [s1 EXCEPT !.ds = cs.ds], ret |-> NULL]
          ELSE IF get_surface_buffer(cs.ds, cs.ret) = NULL
          THEN [st |-> [s1 EXCEPT !.ds = destroy_surface(cs.ds, cs.ret)],
                ret |-> NULL]
          ELSE
            [st |-> bring_to_front(
                      [s1 EXCEPT
                         !.ds = cs.ds,
                         !.wm.WINDOW_POOL[slot] =
                            [live |-> TRUE, id |-> slot, x |-> x, y |-> y,
                             width |-> width, height |-> height,
                             title |-> CopyTitle(title), flags |-> flags,
                             focused |-> TRUE, invalidated |-> TRUE,
                             buffer |-> get_surface_buffer(cs.ds, cs.ret),
                             surface |-> cs.ret,
                             z_order |-> z_order,
                             minimized |-> FALSE, maximized |-> FALSE,
                             orig_x |-> x, orig_y |-> y,
                             orig_width |-> width, orig_height |-> height],
                         !.wm.windows = Append(@, slot),
                         !.wm.focused_window = slot],
                      slot),
             ret |-> slot]
    IN WithSurface([st EXCEPT !.wm.next_z_order = z_order + 1],
                   create_surface(st.ds, x, y, width, height, z_order))

\* a destroy that leaves the surface of the window in the display server
destroy_window_keeping_surface(st, window) ==
  LET w == Win(st, window)
      Unlinked(s1) ==
        IF SeqIndexOf(s1.wm.windows, window) = 0 THEN s1
        ELSE [s1 EXCEPT
                !.wm.windows = SeqRemoveAt(@, SeqIndexOf(@, window)),
                !.wm.focused_window = IF @ = window THEN NULL ELSE @,
                !.wm.dragging_window = IF @ = window THEN NULL ELSE @]
  IN Unlinked(
       [MarkWindowDirty(st, window) EXCEPT
          !.wm.WINDOW_POOL =
             IF w.id < 32 THEN [@ EXCEPT ![w.id].live = FALSE] ELSE @])

\* a destroy that forgets to free the pool slot
destroy_window_keeping_slot(st, window) ==
  LET w == Win(st, window)
      Unlinked(s1) ==
        IF SeqIndexOf(s1.wm.windows, window) = 0 THEN s1
        ELSE [s1 EXCEPT
                !.wm.windows = SeqRemoveAt(@, SeqIndexOf(@, window)),
                !.wm.focused_window = IF @ = window THEN NULL ELSE @,
                !.wm.dragging_window = IF @ = window THEN NULL ELSE @]
  IN Unlinked([MarkWindowDirty(st, window) EXCEPT
                 !.ds = destroy_surface(@, w.surface)])

destroy_window(st, window) ==
  LET w == Win(st, window)
      \* s1: the state after the surface is destroyed and the slot freed
      Unlinked(s1) ==
        IF SeqIndexOf(s1.wm.windows, window) = 0 THEN s1
        ELSE [s1 EXCEPT
                !.wm.windows = SeqRemoveAt(@, SeqIndexOf(@, window)),
                !.wm.focused_window = IF @ = window THEN NULL ELSE @,
                !.wm.dragging_window = IF @ = window THEN NULL ELSE @]
  IN Unlinked(
       [MarkWindowDirty(st, window) EXCEPT
          !.ds = destroy_surface(@, w.surface),
          !.wm.WINDOW_POOL =
             IF w.id < 32 THEN [@ EXCEPT ![w.id].live = FALSE] ELSE @])

invalidate_window(st, window) ==
  MarkWindowDirty([st EXCEPT !.wm.WINDOW_POOL[window].invalidated = TRUE], window)

minimize_window(st, window) ==
  IF Win(st, window).minimized THEN st
  ELSE LET z == st.wm.min_z_order
           Defocused(s2) ==
             IF s2.wm.focused_window = window
             THEN [s2 EXCEPT !.wm.WINDOW_POOL[window].focused = FALSE,
                             !.wm.focused_window = NULL]
             ELSE s2
       IN Defocused(
            MarkWindowDirty(
              [st EXCEPT
                 !.wm.WINDOW_POOL[window].minimized = TRUE,
                 !.wm.WINDOW_POOL[window].z_order = z,
                 !.wm.min_z_order = z - 1,
                 !.ds = set_surface_z_order(@, Win(st, window).surface, z)],
              window))

\* `old_focused` loses the focus (restore_window does not compare it to `window`)
Unfocus(st, old_focused) ==
  MarkWindowDirty(
    [st EXCEPT !.wm.WINDOW_POOL[old_focused].focused = FALSE,
               !.wm.WINDOW_POOL[old_focused].invalidated = TRUE],
    old_focused)

restore_window(st, window) ==
  IF ~Win(st, window).minimized THEN st
  ELSE LET z == st.wm.next_z_order
           Refocused(s2) ==
             [(IF s2.wm.focused_window # NULL
               THEN Unfocus(s2, s2.wm.focused_window) ELSE s2)
              EXCEPT !.wm.focused_window = window,
                     !.wm.WINDOW_POOL[window].focused = TRUE,
                     !.wm.WINDOW_POOL[window].invalidated = TRUE]
       IN bring_to_front(
            Refocused(
              MarkWindowDirty(
                [st EXCEPT
                   !.wm.WINDOW_POOL[window].minimized = FALSE,
                   !.wm.WINDOW_POOL[window].z_order = z,
                   !.wm.next_z_order = z + 1,
                   !.ds = set_surface_z_order(@, Win(st, window).surface, z)],
                window)),
            window)

\* the focus change the click handlers and maximize_window share
FocusWindow(st, window) ==
  LET old_focused == st.wm.focused_window
      s1 == IF old_focused # NULL /\ old_focused # window
            THEN Unfocus(st, old_focused) ELSE st
  IN [s1 EXCEPT !.wm.focused_window = window,
                !.wm.WINDOW_POOL[window].focused = TRUE,
                !.wm.WINDOW_POOL[window].invalidated = TRUE]

TooLarge(width, height) == U32Gt(width * height, MAX_BUFFER_SIZE)

\* the size maximize_window asks for on a framebuffer fb_width x fb_height
MaximizeSize(fb_width, fb_height) ==
  LET aspect_num == fb_width * 1000
      aspect_den == fb_height
      by_width == [w |-> MAX_WIDTH, h |-> (MAX_WIDTH * aspect_den) \div aspect_num]
      by_height == [w |-> (MAX_HEIGHT * aspect_num) \div aspect_den, h |-> MAX_HEIGHT]
      fallback == [w |-> Min(MAX_WIDTH, fb_width), h |-> Min(MAX_HEIGHT, fb_height)]
      scaled ==
        IF ~TooLarge(fb_width, fb_height) THEN [w |-> fb_width, h |-> fb_height]
        ELSE IF fb_width > fb_height
        THEN IF ~TooLarge(by_width.w, by_width.h) THEN by_width
             ELSE IF ~TooLarge(by_height.w, by_height.h) THEN by_height
             ELSE fallback
        ELSE IF ~TooLarge(by_height.w, by_height.h) THEN by_height
             ELSE IF ~TooLarge(by_width.w, by_width.h) THEN by_width
             ELSE fallback
  IN IF TooLarge(scaled.w, scaled.h) THEN [w |-> MAX_WIDTH, h |-> MAX_HEIGHT]
     ELSE scaled

\* the restore-original-size path of maximize_window
MaximizeRevert(st, window, invalidate) ==
  LET w == Win(st, window)
      Rebuffered(s2) ==
        [s2 EXCEPT
           !.wm.WINDOW_POOL[window].buffer = get_surface_buffer(s2.ds, w.surface),
           !.wm.WINDOW_POOL[window].invalidated = IF invalidate THEN TRUE ELSE @]
  IN Rebuffered(
       [st EXCEPT
          !.wm.WINDOW_POOL[window].x = w.orig_x,
          !.wm.WINDOW_POOL[window].y = w.orig_y,
          !.wm.WINDOW_POOL[window].width = w.orig_width,
          !.wm.WINDOW_POOL[window].height = w.orig_height,
          !.wm.WINDOW_POOL[window].maximized = FALSE,
          !.ds = set_surface_position(
                   set_surface_size(@, w.surface, w.orig_width, w.orig_height),
                   w.surface, w.orig_x, w.orig_y)])

maximize_window(st, window) ==
  IF Win(st, window).maximized THEN st
  ELSE
    LET w0 == Win(st, window)
        fb_width == st.wm.framebuffer.width
        fb_height == st.wm.framebuffer.height
        \* original geometry saved, old rectangle dirty, new position set
        Placed(size) ==
          [MarkWindowDirty(st, window) EXCEPT
             !.wm.WINDOW_POOL[window].orig_x = w0.x,
             !.wm.WINDOW_POOL[window].orig_y = w0.y,
             !.wm.WINDOW_POOL[window].orig_width = w0.width,
             !.wm.WINDOW_POOL[window].orig_height = w0.height,
             !.wm.WINDOW_POOL[window].x =
                IF size.w = fb_width /\ size.h = fb_height THEN 0
                ELSE Max(DivTrunc(fb_width - size.w, 2), 0),
             !.wm.WINDOW_POOL[window].y =
                IF size.w = fb_width /\ size.h = fb_height THEN 0
                ELSE Max(DivTrunc(fb_height - size.h, 2), 0)]
        Restored(s3) ==
          IF Win(s3, window).minimized THEN restore_window(s3, window) ELSE s3
        \* window dimensions, then surface position, then surface size
        Resized(s4, size) ==
          [s4 EXCEPT
             !.wm.WINDOW_POOL[window].width = size.w,
             !.wm.WINDOW_POOL[window].height = size.h,
             !.wm.WINDOW_POOL[window].maximized = TRUE,
             !.wm.WINDOW_POOL[window].invalidated = TRUE,
             !.ds = set_surface_size(
                      set_surface_position(@, Win(s4, window).surface,
                                           Win(s4, window).x, Win(s4, window).y),
                      Win(s4, window).surface, size.w, size.h)]
        Rebuffered(s6) ==
          [s6 EXCEPT !.wm.WINDOW_POOL[window].buffer =
                        get_surface_buffer(s6.ds, Win(s6, window).surface)]
        \* front, focus, dirty, render
        Shown(s7) ==
          [MarkWindowDirty(
             [FocusWindow(bring_to_front(s7, window), window) EXCEPT
                !.wm.WINDOW_POOL[window].minimized = FALSE],
             window)
           EXCEPT !.ds = render(@),
                  !.wm.WINDOW_POOL[window].invalidated = TRUE]
        \* the surface must have taken the size, and the buffer must exist
        Verified(s7, size) ==
          IF /\ Win(s7, window).surface # NULL
             /\ \/ s7.ds.SURFACE_POOL[Win(s7, window).surface].width # size.w
                \/ s7.ds.SURFACE_POOL[Win(s7, window).surface].height # size.h
          THEN MaximizeRevert(s7, window, TRUE)
          ELSE IF Win(s7, window).buffer = NULL
          THEN MaximizeRevert(s7, window, FALSE)
          ELSE Shown(s7)
        From(s3, size) ==
          IF TooLarge(size.w, size.h) THEN s3
          ELSE Verified(Rebuffered(Resized(Restored(s3), size)), size)
        Sized(size) == From(Placed(size), size)
    IN Sized(MaximizeSize(fb_width, fb_height))

unmaximize_window(st, window) ==
  IF ~Win(st, window).maximized THEN st
  ELSE
    LET w == Win(st, window)
        Rebuffered(s2) ==
          MarkWindowDirty(
            [s2 EXCEPT
               !.wm.WINDOW_POOL[window].buffer = get_surface_buffer(s2.ds, w.surface),
               !.wm.WINDOW_POOL[window].invalidated = TRUE],
            window)
    IN Rebuffered(
         [MarkWindowDirty(st, window) EXCEPT
            !.wm.WINDOW_POOL[window].x = w.orig_x,
            !.wm.WINDOW_POOL[window].y = w.orig_y,
            !.wm.WINDOW_POOL[window].width = w.orig_width,
            !.wm.WINDOW_POOL[window].height = w.orig_height,
            !.wm.WINDOW_POOL[window].maximized = FALSE,
            !.ds = set_surface_position(
                     set_surface_size(@, w.surface, w.orig_width, w.orig_height),
                     w.surface, w.orig_x, w.orig_y)])

get_resize_edge(st, window, mouse_x, mouse_y) ==
  LET w == Win(st, window)
      rel_x == mouse_x - w.x
      rel_y == mouse_y - w.y
      on_left == rel_x < RESIZE_BORDER
      on_right == rel_x >= w.width - RESIZE_BORDER
      on_top == rel_y < RESIZE_BORDER
      on_bottom == rel_y >= w.height - RESIZE_BORDER
  IN IF ~HasFlag(w.flags, WINDOW_RESIZABLE) THEN RE_None
     ELSE IF w.maximized THEN RE_None
     ELSE IF rel_y < TITLE_BAR_HEIGHT THEN RE_None
     ELSE IF on_top /\ ~on_bottom /\ on_left /\ ~on_right THEN RE_TopLeft
     ELSE IF on_top /\ ~on_bottom /\ ~on_left /\ on_right THEN RE_TopRight
     ELSE IF ~on_top /\ on_bottom /\ on_left /\ ~on_right THEN RE_BottomLeft
     ELSE IF ~on_top /\ on_bottom /\ ~on_left /\ on_right THEN RE_BottomRight
     ELSE IF on_top /\ ~on_bottom /\ ~on_left /\ ~on_right THEN RE_Top
     ELSE IF ~on_top /\ on_bottom /\ ~on_left /\ ~on_right THEN RE_Bottom
     ELSE IF ~on_top /\ ~on_bottom /\ on_left /\ ~on_right THEN RE_Left
     ELSE IF ~on_top /\ ~on_bottom /\ ~on_left /\ on_right THEN RE_Right
     ELSE RE_None

(***************************************************************************)
(* Window manager: handle_mouse                                            *)
(***************************************************************************)
\* a level-triggered button test
button_pressed(left_button, last_mouse_button) == left_button

button_just_pressed(left_button, last_mouse_button) ==
  left_button /\ ~last_mouse_button

\* width for a resize by the right edge
ResizeRight(new_x, start_width, delta_x, fb_width) ==
  LET w1 == start_width + delta_x
      w2 == IF U32Lt(w1, MIN_WIDTH) THEN MIN_WIDTH ELSE w1
  IN IF new_x + w2 > fb_width THEN fb_width - new_x ELSE w2

\* x and width for a resize by the left edge
ResizeLeft(win, start_x, start_width, delta_x) ==
  LET new_left == start_x + delta_x
      w1 == IF new_left < 0 THEN start_width - new_left ELSE start_width - delta_x
      x1 == IF new_left < 0 THEN 0 ELSE new_left
  IN IF U32Lt(w1, MIN_WIDTH)
     THEN [x |-> win.x + win.width - MIN_WIDTH, width |-> MIN_WIDTH]
     ELSE [x |-> x1, width |-> w1]

\* height for a resize by the bottom edge
ResizeBottom(new_y, start_height, delta_y, fb_height) ==
  LET h1 == start_height + delta_y
      h2 == IF U32Lt(h1, MIN_HEIGHT) THEN MIN_HEIGHT ELSE h1
  IN IF new_y + h2 > fb_height THEN fb_height - new_y ELSE h2

\* y and height for a resize by the top edge
ResizeTop(win, start_y, start_height, delta_y) ==
  LET new_top == start_y + delta_y
      h1 == IF new_top < 0 THEN start_height - new_top ELSE start_height - delta_y
      y1 == IF new_top < 0 THEN 0 ELSE new_top
  IN IF U32Lt(h1, MIN_HEIGHT)
     THEN [y |-> win.y + win.height - MIN_HEIGHT, height |-> MIN_HEIGHT]
     ELSE [y |-> y1, height |-> h1]

\* (new_x, new_y, new_width, new_height) of one resizing step
ResizeGeometry(m, win, mouse_x, mouse_y) ==
  LET fb_width == m.framebuffer.width
      fb_height == m.framebuffer.height
      delta_x == mouse_x - m.resize_start_x
      delta_y == mouse_y - m.resize_start_y
      e == m.resize_edge
      left == ResizeLeft(win, m.resize_start_x, m.resize_start_width, delta_x)
      top == ResizeTop(win, m.resize_start_y, m.resize_start_height, delta_y)
      horiz ==
        IF e \in {RE_Right, RE_BottomRight, RE_TopRight}
        THEN [x |-> win.x,
              width |-> ResizeRight(win.x, m.resize_start_width, delta_x, fb_width)]
        ELSE IF e \in {RE_Left, RE_BottomLeft, RE_TopLeft} THEN left
        ELSE [x |-> win.x, width |-> m.resize_start_width]
      vert ==
        IF e \in {RE_Bottom, RE_BottomRight, RE_BottomLeft}
        THEN [y |-> win.y,
              height |-> ResizeBottom(win.y, m.resize_start_height, delta_y, fb_height)]
        ELSE IF e \in {RE_Top, RE_TopRight, RE_TopLeft} THEN top
        ELSE [y |-> win.y, height |-> m.resize_start_height]
  IN [x |-> horiz.x, y |-> vert.y, width |-> horiz.width, height |-> vert.height]

\* a release that forgets the window but keeps the edge
EndResizeKeepsEdge(st, mouse_x, mouse_y) ==
  [st EXCEPT !.wm.resizing_window = NULL,
             !.ds = update_cursor_position(@, mouse_x, mouse_y)]

\* the button is released while resizing
EndResize(st, mouse_x, mouse_y) ==
  [st EXCEPT !.wm.resizing_window = NULL,
             !.wm.resize_edge = RE_None,
             !.ds = update_cursor_position(@, mouse_x, mouse_y)]

\* handle_mouse while resizing_window is set
HandleResizing(st, mouse_x, mouse_y, left_button) ==
  LET resizing == st.wm.resizing_window
      win == Win(st, resizing)
      \* buffer pointer refreshed, new rectangle dirty, immediate render
      Rebuffered(s2) ==
        [MarkWindowDirty(
           [s2 EXCEPT
              !.wm.WINDOW_POOL[resizing].buffer =
                 get_surface_buffer(s2.ds, win.surface),
              !.wm.WINDOW_POOL[resizing].invalidated = TRUE],
           resizing)
         EXCEPT !.ds = render(@)]
      \* the window takes the geometry g whether or not the surface does
      Resized(g) ==
        IF win.x # g.x \/ win.y # g.y \/ win.width # g.width \/ win.height # g.height
        THEN Rebuffered(
               [MarkWindowDirty(st, resizing) EXCEPT
                  !.wm.WINDOW_POOL[resizing].x = g.x,
                  !.wm.WINDOW_POOL[resizing].y = g.y,
                  !.wm.WINDOW_POOL[resizing].width = g.width,
                  !.wm.WINDOW_POOL[resizing].height = g.height,
                  !.ds = set_surface_position(
                           set_surface_size(@, win.surface, g.width, g.height),
                           win.surface, g.x, g.y)])
        ELSE st
  IN IF left_button
     THEN Resized(ResizeGeometry(st.wm, win, mouse_x, mouse_y))
     ELSE EndResize(st, mouse_x, mouse_y)

\* a drag step that forgets the offset of the press
DragPositionNoOffset(m, win, mouse_x, mouse_y) == [x |-> mouse_x, y |-> mouse_y]

\* the position a drag step gives the window
DragPosition(m, win, mouse_x, mouse_y) ==
  LET x0 == mouse_x - m.drag_offset_x
      y0 == mouse_y - m.drag_offset_y
      x1 == IF x0 < 0 THEN 0 ELSE x0
      y1 == IF y0 < 0 THEN 0 ELSE y0
      x2 == IF x1 + win.width > m.framebuffer.width
            THEN m.framebuffer.width - win.width ELSE x1
      y2 == IF y1 + win.height > m.framebuffer.height
            THEN m.framebuffer.height - win.height ELSE y1
  IN IF win.maximized THEN [x |-> x0, y |-> y0] ELSE [x |-> x2, y |-> y2]

\* a release that leaves the window attached to the pointer
EndDragKeepsWindow(st, mouse_x, mouse_y) ==
  [st EXCEPT !.ds = update_cursor_position(@, mouse_x, mouse_y)]

\* the button is released while dragging
EndDrag(st, mouse_x, mouse_y) ==
  [st EXCEPT !.wm.dragging_window = NULL,
             !.ds = update_cursor_position(@, mouse_x, mouse_y)]

\* handle_mouse while dragging_window is set
HandleDragging(st, mouse_x, mouse_y, left_button) ==
  LET dragging == st.wm.dragging_window
      win == Win(st, dragging)
      \* a window that is not on top takes the next z-order
      Raised(s1) ==
        IF win.z_order < s1.wm.next_z_order - 1
        THEN [s1 EXCEPT
                !.wm.WINDOW_POOL[dragging].z_order = s1.wm.next_z_order,
                !.wm.next_z_order = @ + 1,
                !.ds = set_surface_z_order(@, win.surface, s1.wm.next_z_order)]
        ELSE s1
      Positioned(s1, p) ==
        IF win.x # p.x \/ win.y # p.y
        THEN [Raised(s1) EXCEPT
                !.ds = render(set_surface_position(@, win.surface, p.x, p.y))]
        ELSE s1
      Moved(p) ==
        Positioned([st EXCEPT !.wm.WINDOW_POOL[dragging].x = p.x,
                              !.wm.WINDOW_POOL[dragging].y = p.y], p)
  IN IF left_button
     THEN Moved(DragPosition(st.wm, win, mouse_x, mouse_y))
     ELSE EndDrag(st, mouse_x, mouse_y)

Contains(w, mouse_x, mouse_y) ==
  /\ mouse_x >= w.x /\ mouse_x < w.x + w.width
  /\ mouse_y >= w.y /\ mouse_y < w.y + w.height

\* a scan that runs bottom to top: the first window in `windows` that is hit
HitIndexFromBottom(st, mouse_x, mouse_y) ==
  LET hits == {i \in 1..Len(st.wm.windows) :
                 /\ ~Win(st, st.wm.windows[i]).minimized
                 /\ Contains(Win(st, st.wm.windows[i]), mouse_x, mouse_y)}
  IN IF hits = {} THEN 0 ELSE CHOOSE i \in hits : \A k \in hits : i <= k

\* index in `windows` of the window the reverse scan stops at, 0 if none
HitIndex(st, mouse_x, mouse_y) ==
  LET hits == {i \in 1..Len(st.wm.windows) :
                 /\ ~Win(st, st.wm.windows[i]).minimized
                 /\ Contains(Win(st, st.wm.windows[i]), mouse_x, mouse_y)}
  IN IF hits = {} THEN 0 ELSE CHOOSE i \in hits : \A k \in hits : k <= i

\* a 16x16 control button whose left edge is button_x
InButton(w, button_x, mouse_x, mouse_y) ==
  /\ mouse_x >= button_x /\ mouse_x < button_x + 16
  /\ mouse_y >= w.y + 2 /\ mouse_y < w.y + 2 + 16

\* the dispatch of a press inside `window`
DispatchClick(st, window, mouse_x, mouse_y) ==
  LET w == Win(st, window)
      close_x == w.x + w.width - 18
      closable == HasFlag(w.flags, WINDOW_CLOSABLE)
      max_x == IF closable THEN close_x - 20 ELSE close_x
      min_x == max_x - 20
      \* focus, dirty, front: the title bar and the content area share it
      Focused == bring_to_front(MarkWindowDirty(FocusWindow(st, window), window),
                                window)
      OnTitleBar(s1) ==
        IF HasFlag(w.flags, WINDOW_MOVABLE) /\ ~w.maximized
        THEN [s1 EXCEPT !.wm.dragging_window = window,
                        !.wm.drag_offset_x = mouse_x - w.x,
                        !.wm.drag_offset_y = mouse_y - w.y]
        ELSE s1
      Dispatch(resize_edge) ==
        IF mouse_y >= w.y + TITLE_BAR_HEIGHT /\ resize_edge # RE_None
        THEN bring_to_front(
               FocusWindow(
                 [st EXCEPT !.wm.resizing_window = window,
                            !.wm.resize_edge = resize_edge,
                            !.wm.resize_start_x = mouse_x,
                            !.wm.resize_start_y = mouse_y,
                            !.wm.resize_start_width = w.width,
                            !.wm.resize_start_height = w.height],
                 window),
               window)
        ELSE IF closable /\ InButton(w, close_x, mouse_x, mouse_y)
        THEN destroy_window(st, window)
        ELSE IF InButton(w, max_x, mouse_x, mouse_y)
        THEN IF w.maximized THEN unmaximize_window(st, window)
             ELSE maximize_window(st, window)
        ELSE IF InButton(w, min_x, mouse_x, mouse_y)
        THEN minimize_window(st, window)
        ELSE IF mouse_y >= w.y /\ mouse_y < w.y + TITLE_BAR_HEIGHT
        THEN OnTitleBar(Focused)
        ELSE Focused
  IN Dispatch(get_resize_edge(st, window, mouse_x, mouse_y))

\* a handle_mouse whose idle branch dispatches to the top window whether or
\* not the button went down inside a window
handle_mouse_dispatching_always(st, mouse_x, mouse_y, left_button) ==
  LET Idle(s1, i) ==
        IF i # 0
        THEN DispatchClick(s1, s1.wm.windows[i], mouse_x, mouse_y)
        ELSE s1
      Tracked(s0) ==
        IF s0.wm.resizing_window # NULL
        THEN HandleResizing(s0, mouse_x, mouse_y, left_button)
        ELSE IF s0.wm.dragging_window # NULL
        THEN HandleDragging(s0, mouse_x, mouse_y, left_button)
        ELSE Idle([s0 EXCEPT !.ds = update_cursor_position(@, mouse_x, mouse_y)],
                  Len(s0.wm.windows))
  IN Tracked([st EXCEPT !.wm.last_mouse_button = left_button])

handle_mouse(st, mouse_x, mouse_y, left_button) ==
  LET pressed == button_just_pressed(left_button, st.wm.last_mouse_button)
      \* idle: s1 is the state after ds_update_cursor_position
      Idle(s1, i) ==
        IF pressed /\ i # 0
        THEN DispatchClick(s1, s1.wm.windows[i], mouse_x, mouse_y)
        ELSE s1
      Tracked(s0) ==
        IF s0.wm.resizing_window # NULL
        THEN HandleResizing(s0, mouse_x, mouse_y, left_button)
        ELSE IF s0.wm.dragging_window # NULL
        THEN HandleDragging(s0, mouse_x, mouse_y, left_button)
        ELSE Idle([s0 EXCEPT !.ds = update_cursor_position(@, mouse_x, mouse_y)],
                  HitIndex(s0, mouse_x, mouse_y))
  IN Tracked([st EXCEPT !.wm.last_mouse_button = left_button])

(***************************************************************************)
(* Window manager: drawing into window buffers, update                     *)
(***************************************************************************)
\* rows of the glyphs the model draws: the chrome labels X, M, R, the title
\* letter W, and the blank row set of every character without a table entry
get_font_glyph(ch) ==
  CASE ch = 88 -> <<102, 102, 60, 24, 60, 102, 102, 0>>
    [] ch = 77 -> <<99, 119, 127, 107, 99, 99, 99, 0>>
    [] ch = 82 -> <<124, 102, 102, 124, 120, 108, 102, 0>>
    [] ch = 87 -> <<99, 99, 99, 107, 127, 119, 99, 0>>
    [] OTHER -> <<0, 0, 0, 0, 0, 0, 0, 0>>

\* the cells of the window's buffer for which Hit(px, py) holds take `color`
PaintCells(st, window, Hit(_, _), color) ==
  LET w == Win(st, window)
  IN IF w.buffer = NULL \/ w.buffer \notin DOMAIN st.ds.BUFFER_POOL \/ w.width <= 0
     THEN st
     ELSE [st EXCEPT !.ds.BUFFER_POOL[w.buffer] =
             [i \in DOMAIN @ |->
                IF /\ (i \div w.width) < w.height
                   /\ Hit(i % w.width, i \div w.width)
                THEN color ELSE @[i]]]

clear_window(st, window, color) ==
  LET w == Win(st, window)
      requested_size == w.width * w.height
      size == IF U32Gt(requested_size, MAX_BUFFER_SIZE) THEN MAX_BUFFER_SIZE
              ELSE requested_size
  IN IF w.buffer = NULL \/ w.buffer \notin DOMAIN st.ds.BUFFER_POOL THEN st
     ELSE [st EXCEPT !.ds.BUFFER_POOL[w.buffer] =
             [i \in DOMAIN @ |-> IF i < size THEN color ELSE @[i]]]

draw_pixel_to_window(st, window, x, y, color) ==
  LET Hit(px, py) == px = x /\ py = y
  IN PaintCells(st, window, Hit, color)

draw_filled_rect_to_window(st, window, x, y, width, height, color) ==
  LET Hit(px, py) == /\ px >= x /\ px < x + width
                     /\ py >= y /\ py < y + height
  IN PaintCells(st, window, Hit, color)

draw_rect_to_window(st, window, x, y, width, height, color) ==
  LET s1 == draw_filled_rect_to_window(st, window, x, y, width, 1, color)
      s2 == draw_filled_rect_to_window(s1, window, x, y + height - 1, width, 1, color)
      s3 == draw_filled_rect_to_window(s2, window, x, y, 1, height, color)
  IN draw_filled_rect_to_window(s3, window, x + width - 1, y, 1, height, color)

draw_char_to_window(st, window, ch, x, y, color) ==
  LET glyph == get_font_glyph(ch)
      Hit(px, py) == /\ px >= x /\ px < x + 8
                     /\ py >= y /\ py < y + 8
                     /\ Bit(glyph[py - y + 1], 7 - (px - x)) = 1
  IN PaintCells(st, window, Hit, color)

RECURSIVE DrawTextFrom(_, _, _, _, _, _, _, _)
DrawTextFrom(st, window, text, i, current_x, x, y, color) ==
  IF i > Len(text) \/ i > 1024 THEN st
  ELSE IF text[i] >= 32 /\ text[i] <= 126
  THEN DrawTextFrom(draw_char_to_window(st, window, text[i], current_x, y, color),
                    window, text, i + 1, current_x + 8, x, y, color)
  ELSE DrawTextFrom(st, window, text, i + 1,
                    IF text[i] = 10 THEN x ELSE current_x, x, y, color)

draw_text_to_window(st, window, text, x, y, color) ==
  IF Win(st, window).buffer = NULL THEN st
  ELSE DrawTextFrom(st, window, text, 1, x, x, y, color)

\* background, title bar, title and control buttons of one window;
\* `forced` is the branch for a maximized window that was not invalidated
RenderChrome(st, window, forced) ==
  LET w == Win(st, window)
      title_color == IF w.focused THEN 4886754 ELSE 4210752
      closable == HasFlag(w.flags, WINDOW_CLOSABLE)
      close_x == w.width - 18
      max_x == IF closable THEN close_x - 20 ELSE close_x
      min_x == max_x - 20
      TitleBar(s1) ==
        draw_text_to_window(
          draw_filled_rect_to_window(s1, window, 0, 0, w.width, 20, title_color),
          window, w.title, 4, 4, 16777215)
      CloseButton(s3) ==
        IF closable
        THEN draw_char_to_window(
               draw_filled_rect_to_window(s3, window, close_x, 2, 16, 16, 16729156),
               window, 88, close_x + 2, 4, 16777215)
        ELSE s3
      MaxButton(s4) ==
        draw_char_to_window(
          draw_filled_rect_to_window(s4, window, max_x, 2, 16, 16, 4474111),
          window, IF forced \/ w.maximized THEN 82 ELSE 77, max_x + 2, 4, 16777215)
      MinButton(s5) ==
        draw_char_to_window(
          draw_filled_rect_to_window(s5, window, min_x, 2, 16, 16, 4521796),
          window, 95, min_x + 2, 4, 16777215)
  IN MinButton(MaxButton(CloseButton(TitleBar(
       clear_window(st, window, WINDOW_BACKGROUND)))))

\* the body of update's loop for one window (no window has a draw callback)
UpdateWindow(st, window) ==
  LET w == Win(st, window)
      \* chrome drawn, invalidated cleared, rectangle dirty
      Redrawn(s1, forced) ==
        MarkWindowDirty(
          [RenderChrome(s1, window, forced) EXCEPT
             !.wm.WINDOW_POOL[window].invalidated = FALSE],
          window)
      \* a maximized window that was not invalidated is redrawn all the same
      Forced(s1) == IF w.buffer # NULL THEN Redrawn(s1, TRUE) ELSE s1
  IN IF w.minimized THEN st
     ELSE IF w.invalidated
     THEN IF w.buffer = NULL THEN st ELSE Redrawn(st, FALSE)
     ELSE IF w.maximized
     THEN Forced(MarkWindowDirty(
                   [st EXCEPT !.wm.WINDOW_POOL[window].invalidated = TRUE], window))
     ELSE st

RECURSIVE UpdateFrom(_, _)
UpdateFrom(st, i) ==
  IF i > Len(st.wm.windows) THEN st
  ELSE UpdateFrom(UpdateWindow(st, st.wm.windows[i]), i + 1)

update(st) ==
  [UpdateFrom(st, 1) EXCEPT !.ds = render(@)]

(***************************************************************************)
(* Specification Spec: the window manager on top of the display server,    *)
(* driven through the exported wm_* entry points.                          *)
(***************************************************************************)
Fb(width, height) == [width |-> width, height |-> height, pitch |-> 4 * width]

Framebuffers == {Fb(800, 600), Fb(1024, 768)}

WinSpec(x, y, width, height, flags) ==
  [title |-> <<87>>, x |-> x, y |-> y, width |-> width, height |-> height,
   flags |-> flags]

WindowSpecs ==
  {WinSpec(100, 100, 200, 200, WINDOW_MOVABLE + WINDOW_CLOSABLE + WINDOW_RESIZABLE),
   WinSpec(100, 100, 300, 200, WINDOW_MOVABLE + WINDOW_CLOSABLE),
   WinSpec(100, 100, 200, 200, WINDOW_CLOSABLE + WINDOW_RESIZABLE)}

\* title bar, drag target, close / maximize / minimize button, bottom-right
\* corner of the first window, and a point beyond the 800x600 framebuffer
MousePoints ==
  {<<110, 105>>, <<130, 125>>, <<285, 105>>, <<265, 105>>, <<245, 105>>,
   <<295, 295>>, <<1000, 700>>}

\* COMMAND_QUEUE, COMMAND_QUEUE_HEAD and COMMAND_QUEUE_TAIL as the image
\* holds them (slot value 0 is None), with the position of the one producer
\* and the one consumer, the commands accepted and processed so far, and the
\* number of calls the producer makes before the consumer is first called
CommandQueue_new ==
  [queue |-> [i \in 0..(QUEUE_SIZE - 1) |-> 0],
   head |-> 0,
   tail |-> 0,
   tail_first |-> FALSE,
   head_first |-> FALSE,
   alone |-> 0,
   producer |-> "idle", cmd |-> 0, next_tail |-> 0, submits |-> 0,
   consumer |-> "idle", slot |-> 0,
   accepted |-> <<>>,
   consumed |-> <<>>]

\* no FileSystem yet and the pool of the static initialiser; the wrappers
\* return false both without a FileSystem and before init, so the two are
\* one state.  `written` is the record of the writes that returned true
FileSystem_new ==
  [initialized |-> FALSE,
   FILE_POOL |-> [i \in 0..(MAX_FILES - 1) |->
                    [name |-> [k \in 0..(MAX_FILENAME_LENGTH - 1) |-> 0],
                     file_type |-> 0,
                     size |-> 0,
                     data |-> <<>>,
                     used |-> FALSE,
                     created_time |-> 0,
                     modified_time |-> 0]],
   CURRENT_TIME |-> 0,
   written |-> {}]

State == [wm |-> wm, ds |-> ds]

LiveWindows == {w \in 0..(N_WIN - 1) : wm.WINDOW_POOL[w].live}

\* the step to state `st`, recorded as call `call`, within the call bound;
\* after a panic the handler loops for ever and no call is made
StepTo(st, call) ==
  /\ calls < MaxCalls
  /\ op.name # "panic"
  /\ calls' = calls + 1
  /\ wm' = st.wm
  /\ ds' = st.ds
  /\ op' = call
  /\ UNCHANGED <<gpu, fs>>

Init ==
  \E fb \in Framebuffers :
     /\ ds = DisplayServer_new(fb)
     /\ wm = WindowManager_new(fb)
     /\ op = [name |-> "init"]
     /\ calls = 0
     /\ gpu = CommandQueue_new
     /\ fs = FileSystem_new

wm_create_window ==
  \E ws \in WindowSpecs :
     /\ window_count(State) < MaxWindows
     /\ LET Returned(r) == StepTo(r.st, [name |-> "create_window", ret |-> r.ret])
        IN Returned(create_window(State, ws.title, ws.x, ws.y,
                                  ws.width, ws.height, ws.flags))

wm_destroy_window ==
  \E w \in LiveWindows :
     StepTo(destroy_window(State, w), [name |-> "destroy_window", window |-> w])

wm_invalidate_window ==
  \E w \in LiveWindows :
     StepTo(invalidate_window(State, w), [name |-> "invalidate_window", window |-> w])

wm_bring_to_front ==
  \E w \in LiveWindows :
     StepTo(bring_to_front(State, w), [name |-> "bring_to_front", window |-> w])

wm_handle_mouse ==
  \E p \in MousePoints : \E left_button \in BOOLEAN :
     StepTo(handle_mouse(State, p[1], p[2], left_button),
            [name |-> "handle_mouse", x |-> p[1], y |-> p[2], left |-> left_button])

wm_update ==
  StepTo(update(State), [name |-> "update"])

Next ==
  \/ wm_create_window
  \/ wm_destroy_window
  \/ wm_invalidate_window
  \/ wm_bring_to_front
  \/ wm_handle_mouse
  \/ wm_update

Spec == Init /\ [][Next]_vars

(***************************************************************************)
(* Specification SpecEdge: the window manager on an 800x600 framebuffer    *)
(* with windows that reach or pass the screen edges.                       *)
(***************************************************************************)
\* a window over the right edge, one over the bottom edge, one wider than
\* the framebuffer, and one near the left edge that is narrower than MIN_WIDTH
EdgeWindowSpecs ==
  {WinSpec(705, 100, 100, 200, WINDOW_MOVABLE + WINDOW_CLOSABLE + WINDOW_RESIZABLE),
   WinSpec(100, 505, 200, 100, WINDOW_MOVABLE + WINDOW_CLOSABLE + WINDOW_RESIZABLE),
   WinSpec(0, 100, 801, 200, WINDOW_MOVABLE + WINDOW_CLOSABLE + WINDOW_RESIZABLE),
   WinSpec(10, 100, 50, 200, WINDOW_MOVABLE + WINDOW_CLOSABLE + WINDOW_RESIZABLE)}

\* right border of the first window, bottom border of the second, a title
\* bar point, a drag target, a point left of the first window, the left
\* border of the fourth window, and the left border of the first
EdgeMousePoints ==
  {<<799, 150>>, <<150, 599>>, <<710, 105>>, <<20, 105>>, <<600, 150>>,
   <<12, 150>>, <<710, 150>>}

InitEdge ==
  /\ ds = DisplayServer_new(Fb(800, 600))
  /\ wm = WindowManager_new(Fb(800, 600))
  /\ op = [name |-> "init"]
  /\ calls = 0
  /\ gpu = CommandQueue_new
  /\ fs = FileSystem_new

wm_create_window_at_edge ==
  \E ws \in EdgeWindowSpecs :
     /\ window_count(State) < MaxWindows
     /\ LET Returned(r) == StepTo(r.st, [name |-> "create_window", ret |-> r.ret])
        IN Returned(create_window(State, ws.title, ws.x, ws.y,
                                  ws.width, ws.height, ws.flags))

wm_handle_mouse_at_edge ==
  \E p \in EdgeMousePoints : \E left_button \in BOOLEAN :
     StepTo(handle_mouse(State, p[1], p[2], left_button),
            [name |-> "handle_mouse", x |-> p[1], y |-> p[2], left |-> left_button])

NextEdge ==
  \/ wm_create_window_at_edge
  \/ wm_handle_mouse_at_edge

SpecEdge == InitEdge /\ [][NextEdge]_vars

(***************************************************************************)
(* Specification SpecFull: the window manager with its pool of 32 windows  *)
(* full, or one short of full.  The pool is filled by wm_create_window     *)
(* calls that are not counted; the counted calls start at 31 windows.      *)
(***************************************************************************)
FullWindowSpec(n) ==
  WinSpec(8 * n, 8 * n, 200, 200,
          WINDOW_MOVABLE + WINDOW_CLOSABLE + WINDOW_RESIZABLE)

FullMousePoints == {<<260, 260>>, <<300, 300>>}

\* the windows wm_destroy_window is called on
FullDestroyed == {0, N_WIN - 1}

NearlyFull == window_count(State) >= N_WIN - 1

InitFull ==
  /\ ds = DisplayServer_new(Fb(800, 600))
  /\ wm = WindowManager_new(Fb(800, 600))
  /\ op = [name |-> "init"]
  /\ calls = 0
  /\ gpu = CommandQueue_new
  /\ fs = FileSystem_new

\* the window-th window of the fill
wm_create_window_filling ==
  LET Created(ws, r) ==
        /\ wm' = r.st.wm
        /\ ds' = r.st.ds
        /\ op' = [name |-> "create_window", ret |-> r.ret]
        /\ UNCHANGED <<calls, gpu, fs>>
      Filling(ws) ==
        Created(ws, create_window(State, ws.title, ws.x, ws.y,
                                  ws.width, ws.height, ws.flags))
  IN ~NearlyFull /\ Filling(FullWindowSpec(window_count(State) + 1))

\* the window that fills the pool, or one of 801 x 600 cells, which no
\* surface buffer holds
wm_create_window_when_full ==
  LET Returned(r) == StepTo(r.st, [name |-> "create_window", ret |-> r.ret])
      Creating(ws) ==
        Returned(create_window(State, ws.title, ws.x, ws.y,
                               ws.width, ws.height, ws.flags))
  IN /\ NearlyFull
     /\ \E ws \in {FullWindowSpec(N_WIN),
                    WinSpec(0, 0, 801, 600, WINDOW_MOVABLE + WINDOW_CLOSABLE)} :
           Creating(ws)

wm_destroy_window_when_full ==
  \E w \in FullDestroyed \cap LiveWindows :
     /\ NearlyFull
     /\ StepTo(destroy_window(State, w), [name |-> "destroy_window", window |-> w])

wm_handle_mouse_when_full ==
  \E p \in FullMousePoints : \E left_button \in BOOLEAN :
     /\ NearlyFull
     /\ StepTo(handle_mouse(State, p[1], p[2], left_button),
               [name |-> "handle_mouse", x |-> p[1], y |-> p[2], left |-> left_button])

NextFull ==
  \/ wm_create_window_filling
  \/ wm_create_window_when_full
  \/ wm_destroy_window_when_full
  \/ wm_handle_mouse_when_full

SpecFull == InitFull /\ [][NextFull]_vars

(***************************************************************************)
(* Specification SpecDraw: the window manager on an 800x600 framebuffer    *)
(* with the first cells of every window buffer tracked; the client draws   *)
(* into its windows through the exported drawing entry points.             *)
(***************************************************************************)
\* calls a behaviour of the drawing specification makes
MaxDrawCalls == 5

DrawWindowSpecs ==
  {WinSpec(100, 100, 200, 200, WINDOW_MOVABLE + WINDOW_CLOSABLE + WINDOW_RESIZABLE)}

\* the maximize and the minimize button of the window
DrawMousePoints == {<<265, 105>>, <<245, 105>>}

DrawColors == {255}

StepDraw(st, call) ==
  /\ calls < MaxDrawCalls
  /\ calls' = calls + 1
  /\ wm' = st.wm
  /\ ds' = st.ds
  /\ op' = call
  /\ UNCHANGED <<gpu, fs>>

InitDraw ==
  /\ ds = [DisplayServer_new(Fb(800, 600)) EXCEPT
             !.BUFFER_POOL = [s \in 0..(N_SURF - 1) |->
                                [i \in 0..(MaxBufCells - 1) |-> 0]]]
  /\ wm = WindowManager_new(Fb(800, 600))
  /\ op = [name |-> "init"]
  /\ calls = 0
  /\ gpu = CommandQueue_new
  /\ fs = FileSystem_new

wm_create_window_to_draw ==
  \E ws \in DrawWindowSpecs :
     /\ window_count(State) < MaxWindows
     /\ LET Returned(r) == StepDraw(r.st, [name |-> "create_window", ret |-> r.ret])
        IN Returned(create_window(State, ws.title, ws.x, ws.y,
                                  ws.width, ws.height, ws.flags))

wm_handle_mouse_on_button ==
  \E p \in DrawMousePoints : \E left_button \in BOOLEAN :
     StepDraw(handle_mouse(State, p[1], p[2], left_button),
              [name |-> "handle_mouse", x |-> p[1], y |-> p[2], left |-> left_button])

wm_invalidate_drawn_window ==
  \E w \in LiveWindows :
     StepDraw(invalidate_window(State, w), [name |-> "invalidate_window", window |-> w])

wm_clear_window ==
  \E w \in LiveWindows : \E color \in DrawColors :
     StepDraw(clear_window(State, w, color), [name |-> "clear_window", window |-> w])

wm_draw_pixel_to_window ==
  \E w \in LiveWindows : \E color \in DrawColors :
     StepDraw(draw_pixel_to_window(State, w, 3, 0, color),
              [name |-> "draw_pixel_to_window", window |-> w])

wm_draw_filled_rect_to_window ==
  \E w \in LiveWindows : \E color \in DrawColors :
     StepDraw(draw_filled_rect_to_window(State, w, 0, 0, 2, 1, color),
              [name |-> "draw_filled_rect_to_window", window |-> w])

wm_draw_rect_to_window ==
  \E w \in LiveWindows : \E color \in DrawColors :
     StepDraw(draw_rect_to_window(State, w, 1, 0, 2, 2, color),
              [name |-> "draw_rect_to_window", window |-> w])

wm_draw_text_to_window ==
  \E w \in LiveWindows : \E color \in DrawColors :
     StepDraw(draw_text_to_window(State, w, <<87>>, 0, 0, color),
              [name |-> "draw_text_to_window", window |-> w])

wm_update_drawn ==
  StepDraw(update(State), [name |-> "update"])

NextDraw ==
  \/ wm_create_window_to_draw
  \/ wm_handle_mouse_on_button
  \/ wm_invalidate_drawn_window
  \/ wm_clear_window
  \/ wm_draw_pixel_to_window
  \/ wm_draw_filled_rect_to_window
  \/ wm_draw_rect_to_window
  \/ wm_draw_text_to_window
  \/ wm_update_drawn

SpecDraw == InitDraw /\ [][NextDraw]_vars

(***************************************************************************)
(* Specification SpecDS: the display server alone, driven through the      *)
(* exported ds_* entry points on a framebuffer small enough to track every *)
(* pixel; the client writes pixels through the pointer that                *)
(* ds_get_surface_buffer returns.                                          *)
(***************************************************************************)
PixelFramebuffers == {Fb(16, 2)}

\* <<x, y, width, height, z_order>>: two overlapping surfaces, one across
\* the right edge of the cursor area of a cursor at (1, 0), one across the
\* left edge of the screen
SurfaceSpecs ==
  {<<1, 0, 2, 2, 2>>, <<2, 0, 2, 1, 1>>, <<13, 0, 2, 1, 4>>, <<-1, 0, 2, 2, 5>>}

SurfacePositions == {<<0, 1>>}

SurfaceZOrders == {3}

\* a size that fits, one beyond MAX_BUFFER_SIZE, and 2 x 2^31, whose
\* product is 2^32
SurfaceSizes == {<<1, 1>>, <<800, 601>>, <<2, -2147483647 - 1>>}

CursorPositions == {<<1, 0>>, <<14, 0>>}

\* <<x, y, width, height>>: the whole screen, two disjoint rectangles, and
\* one whose right edge 2 + (2^31 - 1) is beyond the largest i32
DirtyRects ==
  {<<0, 0, 16, 2>>, <<1, 0, 2, 1>>, <<5, 1, 3, 1>>, <<2, 0, 2147483647, 1>>}

FillColors == {1118481}

LiveSurfaces == {s \in 0..(N_SURF - 1) : ds.SURFACE_POOL[s].live}

StepDS(d, call) == StepTo([wm |-> wm, ds |-> d], call)

InitDS ==
  \E fb \in PixelFramebuffers :
     /\ ds = DisplayServer_new(fb)
     /\ wm = WindowManager_new(fb)
     /\ op = [name |-> "init"]
     /\ calls = 0
     /\ gpu = CommandQueue_new
     /\ fs = FileSystem_new

ds_create_surface ==
  \E sp \in SurfaceSpecs :
     /\ surface_count(ds) < MaxSurfaces
     /\ LET Returned(r) == StepDS(r.ds, [name |-> "ds_create_surface", ret |-> r.ret])
        IN Returned(create_surface(ds, sp[1], sp[2], sp[3], sp[4], sp[5]))

ds_destroy_surface ==
  \E s \in LiveSurfaces :
     StepDS(destroy_surface(ds, s), [name |-> "ds_destroy_surface", surface |-> s])

ds_set_surface_position ==
  \E s \in LiveSurfaces : \E p \in SurfacePositions :
     StepDS(set_surface_position(ds, s, p[1], p[2]),
            [name |-> "ds_set_surface_position", surface |-> s, x |-> p[1], y |-> p[2]])

ds_set_surface_z_order ==
  \E s \in LiveSurfaces : \E z \in SurfaceZOrders :
     StepDS(set_surface_z_order(ds, s, z),
            [name |-> "ds_set_surface_z_order", surface |-> s, z_order |-> z])

\* a build with overflow checks panics at `width * height` when the product
\* does not fit in a u32; a build without them continues with the product
\* modulo 2^32
ds_set_surface_size ==
  \E s \in LiveSurfaces : \E sz \in SurfaceSizes : \E overflow_checks \in BOOLEAN :
     IF overflow_checks
     THEN /\ MulU32(sz[1], sz[2]).overflows
          /\ StepDS(ds, [name |-> "panic"])
     ELSE StepDS(set_surface_size(ds, s, sz[1], sz[2]),
                 [name |-> "ds_set_surface_size", surface |-> s,
                  width |-> sz[1], height |-> sz[2]])

\* a build with overflow checks panics in DirtyRect::union when a corner
\* sum `x + width as i32` or `y + height as i32` does not fit in an i32
ds_mark_dirty ==
  \E r \in DirtyRects : \E overflow_checks \in BOOLEAN :
     IF overflow_checks
     THEN /\ ds.dirty_rect.valid
          /\ CornerOverflows(ds.dirty_rect)
               \/ CornerOverflows(DirtyRect(r[1], r[2], r[3], r[4], TRUE))
          /\ StepDS(ds, [name |-> "panic"])
     ELSE StepDS(mark_dirty(ds, r[1], r[2], r[3], r[4]),
                 [name |-> "ds_mark_dirty", x |-> r[1], y |-> r[2],
                  width |-> r[3], height |-> r[4]])

ds_update_cursor_position ==
  \E p \in CursorPositions :
     StepDS(update_cursor_position(ds, p[1], p[2]),
            [name |-> "ds_update_cursor_position", x |-> p[1], y |-> p[2]])

\* a frame that is not a full redraw takes the corner sums of the
\* accumulated rectangle; a build with overflow checks panics when one of them
\* does not fit in an i32
ds_render ==
  \E overflow_checks \in BOOLEAN :
     IF overflow_checks
     THEN /\ ds.backbuffer_initialized /\ ~ds.full_redraw /\ ds.desktop_cleared
          /\ ds.dirty_rect.valid
          /\ CornerOverflows(ds.dirty_rect)
          /\ StepDS(ds, [name |-> "panic"])
     ELSE StepDS(render(ds), [name |-> "ds_render"])

\* the client fills the buffer of surface s through the pointer it was given
surface_buffer_fill ==
  \E s \in LiveSurfaces : \E color \in FillColors :
     StepDS([ds EXCEPT !.BUFFER_POOL[ds.SURFACE_POOL[s].buffer] =
                         [i \in DOMAIN @ |-> color]],
            [name |-> "surface_buffer_fill", surface |-> s, color |-> color])

NextDS ==
  \/ ds_create_surface
  \/ ds_destroy_surface
  \/ ds_set_surface_position
  \/ ds_set_surface_z_order
  \/ ds_set_surface_size
  \/ ds_mark_dirty
  \/ ds_update_cursor_position
  \/ ds_render
  \/ surface_buffer_fill

SpecDS == InitDS /\ [][NextDS]_vars

(***************************************************************************)
(* The GPU command ring: one producer in gpu_submit_command, one consumer  *)
(* in gpu_process_commands, interleaved at each read and write of          *)
(* COMMAND_QUEUE_HEAD, COMMAND_QUEUE_TAIL and the slots.  The statics are   *)
(* plain `static mut` accessed without atomics or fences, so the two       *)
(* stores of each function are not ordered for the other side: the build   *)
(* may emit them in either order (tail_first, head_first).                 *)
(***************************************************************************)
StepGPU(g, call) ==
  /\ gpu' = g
  /\ op' = call
  /\ UNCHANGED <<ds, wm, calls, fs>>

InitGPU ==
  \E tail_first \in BOOLEAN : \E head_first \in BOOLEAN :
  \E alone \in {0, QUEUE_SIZE - 3} :
     /\ ds = DisplayServer_new(Fb(800, 600))
     /\ wm = WindowManager_new(Fb(800, 600))
     /\ op = [name |-> "init"]
     /\ calls = 0
     /\ gpu = [CommandQueue_new EXCEPT !.tail_first = tail_first,
                                       !.head_first = head_first,
                                       !.alone = alone]
     /\ fs = FileSystem_new

\* one read or write of the producer; commands are numbered as submitted
gpu_submit_command ==
  LET slot_stored(g) == [g EXCEPT !.queue[(g.next_tail + QUEUE_SIZE - 1) % QUEUE_SIZE] = g.cmd]
      tail_stored(g) == [g EXCEPT !.tail = g.next_tail]
      first(g) == IF g.tail_first THEN tail_stored(g) ELSE slot_stored(g)
      second(g) == IF g.tail_first THEN slot_stored(g) ELSE tail_stored(g)
  IN \/ /\ gpu.submits < gpu.alone
        \* a whole call while the consumer has not been called: the ring
        \* is not full
        /\ StepGPU([gpu EXCEPT !.submits = @ + 1,
                               !.queue[gpu.tail] = gpu.submits + 1,
                               !.tail = (gpu.tail + 1) % QUEUE_SIZE,
                               !.accepted = Append(@, gpu.submits + 1)],
                   [name |-> "gpu_submit_command", at |-> "return", ret |-> TRUE])
     \/ /\ gpu.producer = "idle"
        /\ gpu.submits >= gpu.alone
        /\ gpu.submits < gpu.alone + MaxCommands
        \* next_tail = (COMMAND_QUEUE_TAIL + 1) % 64
        /\ StepGPU([gpu EXCEPT !.producer = "test",
                               !.submits = @ + 1,
                               !.cmd = gpu.submits + 1,
                               !.next_tail = (gpu.tail + 1) % QUEUE_SIZE],
                   [name |-> "gpu_submit_command", at |-> "read_tail"])
     \/ /\ gpu.producer = "test"
        \* next_tail == COMMAND_QUEUE_HEAD: queue full
        /\ IF gpu.next_tail = gpu.head
           THEN StepGPU([gpu EXCEPT !.producer = "idle"],
                        [name |-> "gpu_submit_command", at |-> "return", ret |-> FALSE])
           ELSE StepGPU([gpu EXCEPT !.producer = "store"],
                        [name |-> "gpu_submit_command", at |-> "read_head"])
     \/ /\ gpu.producer = "store"
        /\ StepGPU([first(gpu) EXCEPT !.producer = "store_again"],
                   [name |-> "gpu_submit_command", at |-> "store"])
     \/ /\ gpu.producer = "store_again"
        /\ StepGPU([second(gpu) EXCEPT !.producer = "idle",
                                       !.accepted = Append(@, gpu.cmd)],
                   [name |-> "gpu_submit_command", at |-> "return", ret |-> TRUE])

\* one read or write of the consumer
gpu_process_commands ==
  LET slot_cleared(g) == [g EXCEPT !.queue[g.slot] = 0]
      head_stored(g) == [g EXCEPT !.head = (g.slot + 1) % QUEUE_SIZE]
      first(g) == IF g.head_first THEN head_stored(g) ELSE slot_cleared(g)
      second(g) == IF g.head_first THEN slot_cleared(g) ELSE head_stored(g)
  IN \/ /\ gpu.consumer = "idle"
        /\ gpu.submits >= gpu.alone
        /\ StepGPU([gpu EXCEPT !.consumer = "test"],
                   [name |-> "gpu_process_commands", at |-> "call"])
     \/ /\ gpu.consumer = "test"
        \* while COMMAND_QUEUE_HEAD != COMMAND_QUEUE_TAIL
        /\ IF gpu.head = gpu.tail
           THEN StepGPU([gpu EXCEPT !.consumer = "idle"],
                        [name |-> "gpu_process_commands", at |-> "return"])
           ELSE StepGPU([gpu EXCEPT !.consumer = "read_slot", !.slot = gpu.head],
                        [name |-> "gpu_process_commands", at |-> "read_tail"])
     \/ /\ gpu.consumer = "read_slot"
        \* COMMAND_QUEUE[COMMAND_QUEUE_HEAD].is_some(), else skip the entry
        /\ IF gpu.queue[gpu.slot] # 0
           THEN StepGPU([gpu EXCEPT !.consumer = "store",
                                    !.consumed = Append(@, gpu.queue[gpu.slot])],
                        [name |-> "gpu_process_commands", at |-> "read_slot"])
           ELSE StepGPU([head_stored(gpu) EXCEPT !.consumer = "test"],
                        [name |-> "gpu_process_commands", at |-> "skip"])
     \/ /\ gpu.consumer = "store"
        /\ StepGPU([first(gpu) EXCEPT !.consumer = "store_again"],
                   [name |-> "gpu_process_commands", at |-> "store"])
     \/ /\ gpu.consumer = "store_again"
        /\ StepGPU([second(gpu) EXCEPT !.consumer = "test"],
                   [name |-> "gpu_process_commands", at |-> "store_again"])

NextGPU ==
  \/ gpu_submit_command
  \/ gpu_process_commands

SpecGPU == InitGPU /\ [][NextGPU]_vars

(***************************************************************************)
(* The in-memory filesystem: FS_STATE, the static FILE_POOL and            *)
(* CURRENT_TIME.  A name is the sequence of the bytes before its NUL; a    *)
(* file's data is its array up to the last byte ever written (the bytes    *)
(* after it are still the zeros of the static initialiser).                *)
(***************************************************************************)
\* the difference at the first byte that differs, 0 when both strings end
\* together
strcmp(s1, s2) ==
  LET a == Append(s1, 0)
      b == Append(s2, 0)
      RECURSIVE loop(_)
      loop(i) == IF a[i + 1] # b[i + 1] THEN a[i + 1] - b[i + 1]
                 ELSE IF a[i + 1] = 0 THEN 0
                 ELSE loop(i + 1)
  IN loop(0)

\* the number of bytes before the first zero byte
strlen(s) ==
  LET RECURSIVE loop(_)
      loop(len) == IF s[len + 1] # 0 THEN loop(len + 1) ELSE len
  IN loop(0)

\* copies the bytes of src and its NUL, and stops without a NUL after
\* MAX_FILENAME_LENGTH bytes; the bytes of dest it does not reach stay
strcpy(dest, src) ==
  LET copied == Min(Len(src) + 1, MAX_FILENAME_LENGTH)
  IN [i \in 0..(MAX_FILENAME_LENGTH - 1) |->
        IF i >= copied THEN dest[i]
        ELSE IF i < Len(src) THEN src[i + 1] ELSE 0]

\* the string strcmp reads at FILE_POOL[i].name.as_ptr(): the bytes of the
\* name array and, when that holds no zero byte, the bytes that follow it in
\* the repr(C) layout, which are those of file_type (an int: its low byte,
\* then zeros)
file_name(file) ==
  LET memory == [k \in 1..(MAX_FILENAME_LENGTH + 2) |->
                   IF k <= MAX_FILENAME_LENGTH THEN file.name[k - 1]
                   ELSE IF k = MAX_FILENAME_LENGTH + 1 THEN file.file_type
                   ELSE 0]
  IN SubSeq(memory, 1, strlen(memory))

\* the first slot not in use, MAX_FILES when there is none
find_free_slot(self) ==
  LET RECURSIVE loop(_)
      loop(i) == IF i = MAX_FILES \/ ~self.FILE_POOL[i].used THEN i
                 ELSE loop(i + 1)
  IN loop(0)

\* the first slot in use whose name compares equal, MAX_FILES when there is
\* none
find_file(self, name) ==
  LET RECURSIVE loop(_)
      loop(i) ==
        IF i = MAX_FILES THEN i
        ELSE IF /\ self.FILE_POOL[i].used
                /\ strcmp(file_name(self.FILE_POOL[i]), name) = 0
        THEN i
        ELSE loop(i + 1)
  IN IF self.initialized THEN loop(0) ELSE MAX_FILES

\* CURRENT_TIME is a u32 that counts the calls; no run comes near its limit
create_file(self, name, file_type) ==
  LET slot == find_free_slot(self)
      time == self.CURRENT_TIME + 1
  IN IF ~self.initialized \/ find_file(self, name) # MAX_FILES \/ slot = MAX_FILES
     THEN [fs |-> self, ret |-> FALSE]
     ELSE [fs |-> [self EXCEPT
                     !.FILE_POOL[slot] =
                        [@ EXCEPT !.used = TRUE,
                                  !.name = strcpy(@, name),
                                  !.file_type = file_type,
                                  !.size = 0,
                                  !.created_time = time,
                                  !.modified_time = time],
                     !.CURRENT_TIME = time],
           ret |-> TRUE]

delete_file(self, name) ==
  LET i == find_file(self, name)
  IN IF i = MAX_FILES
     THEN [fs |-> self, ret |-> FALSE]
     ELSE [fs |-> [self EXCEPT !.FILE_POOL[i] =
                     [@ EXCEPT !.used = FALSE, !.name[0] = 0, !.size = 0]],
           ret |-> TRUE]

\* `data` holds the `size` bytes at the caller's pointer; the unwrap of the
\* second find_file panics when the file just created is not found
write_file(self, name, data, size) ==
  LET created == create_file(self, name, 0)
      existing == find_file(self, name)
      store(f, file) ==
        LET time == f.CURRENT_TIME + 1
        IN [f EXCEPT !.FILE_POOL[file] =
                        [@ EXCEPT !.data = data \o SubSeq(@, size + 1, Len(@)),
                                  !.size = size,
                                  !.modified_time = time],
                     !.CURRENT_TIME = time]
  IN IF ~self.initialized \/ size > MAX_FILE_SIZE
     THEN [fs |-> self, ret |-> FALSE, panics |-> FALSE]
     ELSE IF existing # MAX_FILES
     THEN [fs |-> store(self, existing), ret |-> TRUE, panics |-> FALSE]
     ELSE IF ~created.ret
     THEN [fs |-> self, ret |-> FALSE, panics |-> FALSE]
     ELSE IF find_file(created.fs, name) = MAX_FILES
     THEN [fs |-> created.fs, ret |-> FALSE, panics |-> TRUE]
     ELSE [fs |-> store(created.fs, find_file(created.fs, name)),
           ret |-> TRUE, panics |-> FALSE]

\* the bytes copied to the caller's buffer and the size reported
read_file(self, name) ==
  LET file == find_file(self, name)
      file_size == self.FILE_POOL[file].size
      stored == self.FILE_POOL[file].data
  IN IF file = MAX_FILES
     THEN [ret |-> FALSE, buffer |-> <<>>, size |-> 0]
     ELSE [ret |-> TRUE,
           buffer |-> [k \in 1..file_size |->
                         IF k <= Len(stored) THEN stored[k] ELSE 0],
           size |-> file_size]

\* the files create_default_files makes, as the bytes of its literals
DefaultFiles ==
  <<
    [name |-> <<119, 101, 108, 99, 111, 109, 101, 46, 116, 120, 116>>,
     data |-> <<87, 101, 108, 99, 111, 109, 101, 32, 116, 111, 32, 68, 69,
                 65, 32, 79, 83, 33, 10, 84, 121, 112, 101, 32, 39, 104,
                 101, 108, 112, 39, 32, 102, 111, 114, 32, 99, 111, 109,
                 109, 97, 110, 100, 115, 46, 10>>],
    [name |-> <<114, 101, 97, 100, 109, 101, 46, 116, 120, 116>>,
     data |-> <<68, 69, 65, 32, 79, 83, 32, 70, 105, 108, 101, 32, 83, 121,
                 115, 116, 101, 109, 10, 10, 67, 111, 109, 109, 97, 110,
                 100, 115, 58, 10, 45, 32, 108, 115, 10, 45, 32, 99, 97,
                 116, 10, 45, 32, 116, 111, 117, 99, 104, 10, 45, 32, 114,
                 109, 10, 45, 32, 119, 114, 105, 116, 101, 10, 45, 32, 100,
                 102, 10>>],
    [name |-> <<104, 101, 108, 108, 111, 95, 99, 46, 101, 108, 102>>,
     data |-> <<72, 101, 108, 108, 111, 32, 87, 111, 114, 108, 100, 32,
                 102, 114, 111, 109, 32, 67, 32, 112, 114, 111, 103, 114,
                 97, 109, 33, 10, 84, 104, 105, 115, 32, 119, 111, 117, 108,
                 100, 32, 98, 101, 32, 97, 32, 114, 101, 97, 108, 32, 69,
                 76, 70, 32, 102, 105, 108, 101, 32, 105, 110, 32, 112, 114,
                 111, 100, 117, 99, 116, 105, 111, 110, 46, 10>>],
    [name |-> <<104, 101, 108, 108, 111, 95, 97, 115, 109, 46, 101, 108,
                 102>>,
     data |-> <<72, 101, 108, 108, 111, 32, 87, 111, 114, 108, 100, 32,
                 102, 114, 111, 109, 32, 65, 115, 115, 101, 109, 98, 108,
                 121, 33, 10, 84, 104, 105, 115, 32, 119, 111, 117, 108,
                 100, 32, 98, 101, 32, 97, 32, 114, 101, 97, 108, 32, 69,
                 76, 70, 32, 102, 105, 108, 101, 32, 105, 110, 32, 112, 114,
                 111, 100, 117, 99, 116, 105, 111, 110, 46, 10>>],
    [name |-> <<100, 101, 109, 111, 46, 116, 120, 116>>,
     data |-> <<68, 69, 65, 32, 79, 83, 32, 80, 114, 111, 103, 114, 97,
                 109, 32, 69, 120, 101, 99, 117, 116, 105, 111, 110, 32, 68,
                 101, 109, 111, 10, 61, 61, 61, 61, 61, 61, 61, 61, 61, 61,
                 61, 61, 61, 61, 61, 61, 61, 61, 61, 61, 61, 61, 61, 61, 61,
                 61, 61, 61, 10, 10, 84, 114, 121, 32, 116, 104, 101, 115,
                 101, 32, 99, 111, 109, 109, 97, 110, 100, 115, 58, 10, 49,
                 46, 32, 99, 111, 109, 112, 105, 108, 101, 32, 104, 101,
                 108, 108, 111, 46, 101, 108, 102, 32, 32, 32, 32, 45, 32,
                 67, 114, 101, 97, 116, 101, 32, 116, 101, 115, 116, 32,
                 112, 114, 111, 103, 114, 97, 109, 10, 50, 46, 32, 101, 120,
                 101, 99, 32, 104, 101, 108, 108, 111, 46, 101, 108, 102,
                 32, 32, 32, 32, 32, 32, 32, 45, 32, 82, 117, 110, 32, 116,
                 104, 101, 32, 112, 114, 111, 103, 114, 97, 109, 10, 51, 46,
                 32, 112, 115, 32, 32, 32, 32, 32, 32, 32, 32, 32, 32, 32,
                 32, 32, 32, 32, 32, 32, 32, 32, 45, 32, 76, 105, 115, 116,
                 32, 112, 114, 111, 99, 101, 115, 115, 101, 115, 10, 52, 46,
                 32, 108, 115, 32, 32, 32, 32, 32, 32, 32, 32, 32, 32, 32,
                 32, 32, 32, 32, 32, 32, 32, 32, 45, 32, 83, 101, 101, 32,
                 97, 108, 108, 32, 102, 105, 108, 101, 115, 10, 10, 89, 111,
                 117, 114, 32, 79, 83, 32, 99, 97, 110, 32, 110, 111, 119,
                 32, 101, 120, 101, 99, 117, 116, 101, 32, 112, 114, 111,
                 103, 114, 97, 109, 115, 33, 10>>]>>

\* each default file is written only when it could be created
create_default_files(self) ==
  LET RECURSIVE upto(_)
      upto(n) ==
        IF n = 0 THEN self
        ELSE LET before == upto(n - 1)
                 created == create_file(before, DefaultFiles[n].name, 0)
             IN IF created.ret
                THEN write_file(created.fs, DefaultFiles[n].name,
                                DefaultFiles[n].data,
                                Len(DefaultFiles[n].data)).fs
                ELSE before
  IN upto(Len(DefaultFiles))

\* clears the fields of every slot except the name after its first byte and
\* the data
init(self) ==
  IF self.initialized THEN self
  ELSE create_default_files(
         [self EXCEPT
            !.FILE_POOL = [i \in 0..(MAX_FILES - 1) |->
                             [self.FILE_POOL[i] EXCEPT !.used = FALSE,
                                          !.name[0] = 0,
                                          !.file_type = 0,
                                          !.size = 0,
                                          !.created_time = 0,
                                          !.modified_time = 0]],
            !.initialized = TRUE])

\* the names and the contents the calls are made with: a name of
\* MAX_FILENAME_LENGTH characters, that name with one more character, and the
\* name of a default file; one content is a byte longer than a file
LongName == [k \in 1..MAX_FILENAME_LENGTH |-> 120]

FileNames == {LongName, Append(LongName, 121), DefaultFiles[1].name}

FileTypes == {0, 1}

FileData == {<<1>>, <<2, 3>>, [k \in 1..(MAX_FILE_SIZE + 1) |-> 7]}

\* the pool after `created` more files were created, each under its own name
RECURSIVE FilledPool(_, _)
FilledPool(self, created) ==
  IF created = 0 THEN self
  ELSE create_file(FilledPool(self, created - 1), <<102, 64 + created>>, 0).fs

\* the step to filesystem `f`, recorded as call `call`, within the call bound
StepFS(f, call) ==
  /\ calls < MaxCalls
  /\ op.name # "panic"
  /\ fs' = f
  /\ op' = call
  /\ calls' = calls + 1
  /\ UNCHANGED <<ds, wm, gpu>>

\* the kernel has not yet called fs_init, or has, or has and the shell has
\* then filled the pool
InitFS ==
  \E initialized \in BOOLEAN :
  \E created \in {0, MAX_FILES - Len(DefaultFiles)} :
     /\ ds = DisplayServer_new(Fb(800, 600))
     /\ wm = WindowManager_new(Fb(800, 600))
     /\ op = [name |-> "init"]
     /\ calls = 0
     /\ gpu = CommandQueue_new
     /\ fs = IF initialized THEN FilledPool(init(FileSystem_new), created)
             ELSE FileSystem_new

fs_init == StepFS(init(fs), [name |-> "fs_init"])

\* `written` forgets the name when a file is created under it
fs_create_file ==
  \E name \in FileNames : \E file_type \in FileTypes :
     LET created == create_file(fs, name, IF file_type = 0 THEN 0 ELSE 1)
     IN StepFS([created.fs EXCEPT !.written =
                  IF created.ret THEN {w \in @ : w[1] # name} ELSE @],
               [name |-> "fs_create_file", file |-> name,
                file_type |-> file_type, ret |-> created.ret])

\* `written` forgets the name when a file is deleted under it
fs_delete_file ==
  \E name \in FileNames :
     LET deleted == delete_file(fs, name)
     IN StepFS([deleted.fs EXCEPT !.written =
                  IF deleted.ret THEN {w \in @ : w[1] # name} ELSE @],
               [name |-> "fs_delete_file", file |-> name, ret |-> deleted.ret])

\* `written` keeps the bytes of the last write that returned true, by name
fs_write_file ==
  \E name \in FileNames : \E data \in FileData :
     LET written == write_file(fs, name, data, Len(data))
     IN IF written.panics
        THEN StepFS(written.fs, [name |-> "panic"])
        ELSE StepFS([written.fs EXCEPT !.written =
                       IF written.ret
                       THEN {w \in @ : w[1] # name} \cup {<<name, data>>}
                       ELSE @],
                    [name |-> "fs_write_file", file |-> name,
                     size |-> Len(data), ret |-> written.ret])

fs_read_file ==
  \E name \in FileNames :
     LET read == read_file(fs, name)
     IN StepFS(fs, [name |-> "fs_read_file", file |-> name, ret |-> read.ret,
                    buffer |-> read.buffer, size |-> read.size])

NextFS ==
  \/ fs_init
  \/ fs_create_file
  \/ fs_delete_file
  \/ fs_write_file
  \/ fs_read_file

SpecFS == InitFS /\ [][NextFS]_vars


(***************************************************************************)
(* Properties of the window manager, checked under Spec                    *)
(***************************************************************************)
WindowGeometry(m, w) ==
  <<m.WINDOW_POOL[w].x, m.WINDOW_POOL[w].y,
    m.WINDOW_POOL[w].width, m.WINDOW_POOL[w].height>>

SurfaceGeometry(d, s) ==
  <<d.SURFACE_POOL[s].x, d.SURFACE_POOL[s].y,
    d.SURFACE_POOL[s].width, d.SURFACE_POOL[s].height>>

Windows == 0..(N_WIN - 1)

IsIdle(m) == m.dragging_window = NULL /\ m.resizing_window = NULL

FocusedWindows == {w \in LiveWindows : wm.WINDOW_POOL[w].focused}

\* C1: after any sequence of calls at most one live window has focused = TRUE
C1_AtMostOneFocused == Cardinality(FocusedWindows) <= 1

\* C2: a press on the title bar records offset = pointer - window origin, and
\* every later call with the button held keeps the offset and puts the window
\* and its surface at pointer - offset whenever that position keeps the window
\* inside the framebuffer
C2_DragFollowsPointer ==
  [][op'.name = "handle_mouse" =>
       /\ (wm.dragging_window = NULL /\ wm'.dragging_window # NULL) =>
             /\ op'.left
             /\ wm'.drag_offset_x = op'.x - wm.WINDOW_POOL[wm'.dragging_window].x
             /\ wm'.drag_offset_y = op'.y - wm.WINDOW_POOL[wm'.dragging_window].y
             /\ WindowGeometry(wm', wm'.dragging_window)
                  = WindowGeometry(wm, wm'.dragging_window)
       /\ (wm.dragging_window # NULL /\ wm.resizing_window = NULL /\ op'.left) =>
             LET w == wm.dragging_window
                 px == op'.x - wm.drag_offset_x
                 py == op'.y - wm.drag_offset_y
             IN /\ wm'.dragging_window = w
                /\ wm'.drag_offset_x = wm.drag_offset_x
                /\ wm'.drag_offset_y = wm.drag_offset_y
                /\ (/\ px >= 0 /\ py >= 0
                    /\ px + wm.WINDOW_POOL[w].width <= wm.framebuffer.width
                    /\ py + wm.WINDOW_POOL[w].height <= wm.framebuffer.height) =>
                      /\ wm'.WINDOW_POOL[w].x = px
                      /\ wm'.WINDOW_POOL[w].y = py
                      /\ ds'.SURFACE_POOL[wm.WINDOW_POOL[w].surface].x = px
                      /\ ds'.SURFACE_POOL[wm.WINDOW_POOL[w].surface].y = py]_vars

\* the end of the drag (110,105,T), (130,125,T), (130,125,F) of the window
\* created at (100,100,200,200)
C2_Witness ==
  /\ op.name = "handle_mouse" /\ op.x = 130 /\ op.y = 125 /\ ~op.left
  /\ IsIdle(wm)
  /\ wm.drag_offset_x = 10 /\ wm.drag_offset_y = 5
  /\ \E w \in LiveWindows :
        /\ WindowGeometry(wm, w) = <<120, 120, 200, 200>>
        /\ SurfaceGeometry(ds, wm.WINDOW_POOL[w].surface) = <<120, 120, 200, 200>>

\* C3: after every handle_mouse call with left_button = FALSE neither a
\* dragging nor a resizing window is set, and the call changed no window's
\* geometry and no surface's geometry
C3_ReleaseIsIdle ==
  [][(op'.name = "handle_mouse" /\ ~op'.left) =>
       /\ IsIdle(wm')
       /\ \A w \in Windows : WindowGeometry(wm', w) = WindowGeometry(wm, w)
       /\ \A s \in 0..(N_SURF - 1) : SurfaceGeometry(ds', s) = SurfaceGeometry(ds, s)]_vars

\* a release that ended a resize which had changed the window
C3_Witness ==
  /\ op.name = "handle_mouse" /\ ~op.left
  /\ IsIdle(wm)
  /\ wm.resize_start_width > 0
  /\ \E w \in LiveWindows : wm.WINDOW_POOL[w].width # wm.resize_start_width

\* C4: a handle_mouse call that is not a press edge (left_button TRUE with the
\* preceding call's left_button FALSE) neither leaves idle nor changes the
\* focus nor destroys, minimizes or maximizes a window; last_mouse_button is
\* the left_button of the preceding call
C4_EdgeTriggered ==
  [][op'.name = "handle_mouse" =>
       /\ wm'.last_mouse_button = op'.left
       /\ ~(op'.left /\ ~wm.last_mouse_button) =>
             /\ IsIdle(wm) => IsIdle(wm')
             /\ wm'.focused_window = wm.focused_window
             /\ \A w \in Windows :
                   /\ wm'.WINDOW_POOL[w].live = wm.WINDOW_POOL[w].live
                   /\ wm'.WINDOW_POOL[w].focused = wm.WINDOW_POOL[w].focused
                   /\ wm'.WINDOW_POOL[w].minimized = wm.WINDOW_POOL[w].minimized
                   /\ wm'.WINDOW_POOL[w].maximized = wm.WINDOW_POOL[w].maximized]_vars

\* the button is held over the title bar of windows that a press edge would
\* start to drag, and the pointer state is idle
C4_Witness ==
  /\ op.name = "handle_mouse" /\ op.left /\ op.x = 110 /\ op.y = 105
  /\ IsIdle(wm)
  /\ LiveWindows # {}
  /\ \A w \in LiveWindows :
        /\ wm.WINDOW_POOL[w].x = 100 /\ wm.WINDOW_POOL[w].y = 100
        /\ ~wm.WINDOW_POOL[w].minimized /\ ~wm.WINDOW_POOL[w].maximized
        /\ HasFlag(wm.WINDOW_POOL[w].flags, WINDOW_MOVABLE)

C8_MinimizedNotPainted ==
  [][op'.name = "update" =>
       \A w \in Windows :
          (wm.WINDOW_POOL[w].live /\ wm.WINDOW_POOL[w].minimized) =>
             \A i \in 1..Len(ds'.painted) :
                ds'.painted[i].surface = wm.WINDOW_POOL[w].surface =>
                   ds'.painted[i].pixels = 0]_vars

\* the largest rectangle with the aspect ratio of the framebuffer and at most
\* MAX_BUFFER_SIZE pixels, by its width
LargestFitWidth(fb) ==
  CHOOSE width \in 1..fb.width :
    /\ (width * fb.height) % fb.width = 0
    /\ width * ((width * fb.height) \div fb.width) <= MAX_BUFFER_SIZE
    /\ \A v \in (width + 1)..fb.width :
          (v * fb.height) % fb.width = 0 =>
             v * ((v * fb.height) \div fb.width) > MAX_BUFFER_SIZE

\* the geometry the specification gives a maximized window
MaximizedGeometry(fb) ==
  IF fb.width * fb.height <= MAX_BUFFER_SIZE THEN <<0, 0, fb.width, fb.height>>
  ELSE LET width == LargestFitWidth(fb)
           height == (width * fb.height) \div fb.width
       IN <<(fb.width - width) \div 2, (fb.height - height) \div 2, width, height>>

\* C9: a call that maximizes a window gives it the framebuffer rectangle when
\* that fits MAX_BUFFER_SIZE, and otherwise the largest rectangle of the
\* framebuffer's aspect ratio that fits, centred (800x600 at (112,84) on
\* 1024x768)
C9_MaximizeGeometry ==
  [][\A w \in Windows :
       (/\ wm.WINDOW_POOL[w].live /\ ~wm.WINDOW_POOL[w].maximized
        /\ wm'.WINDOW_POOL[w].live /\ wm'.WINDOW_POOL[w].maximized) =>
          WindowGeometry(wm', w) = MaximizedGeometry(wm.framebuffer)]_vars

\* window and surface geometry of window w in state st
GeometryOf(st, w) ==
  <<WindowGeometry(st.wm, w), SurfaceGeometry(st.ds, st.wm.WINDOW_POOL[w].surface)>>

\* C10: maximize(w) followed by unmaximize(w) leaves the (x, y, width, height)
\* of the window and of its surface as they were before maximize
C10_MaximizeUnmaximizeIdentity ==
  \A w \in LiveWindows :
     ~wm.WINDOW_POOL[w].maximized =>
        GeometryOf(unmaximize_window(maximize_window(State, w), w), w)
          = GeometryOf(State, w)


(***************************************************************************)
(* Properties of the display server, checked under SpecDS                  *)
(***************************************************************************)

\* the surfaces of d that cover pixel (px, py), by their place in d.surfaces
CoveringSurfaces(d, px, py) ==
  {k \in 1..Len(d.surfaces) :
     LET s == d.SURFACE_POOL[d.surfaces[k]]
     IN /\ s.buffer # NULL
        /\ px >= s.x /\ px < s.x + s.width
        /\ py >= s.y /\ py < s.y + s.height}

\* the colour of pixel i in a frame composed without a cursor: the desktop
\* colour under the surfaces painted in ascending z
ComposedPixel(d, i) ==
  LET px == PixX(d, i)
      py == PixY(d, i)
      covering == CoveringSurfaces(d, px, py)
  IN IF covering = {} THEN d.desktop_color
     ELSE LET top == CHOOSE k \in covering : \A l \in covering : l <= k
              s == d.SURFACE_POOL[d.surfaces[top]]
          IN d.BUFFER_POOL[s.buffer][(py - s.y) * s.width + (px - s.x)]

\* pixels of the envelope around (x, y) outside the envelope around (nx, ny)
VacatedPixels(d, x, y, nx, ny) ==
  {i \in DOMAIN d.BACKBUFFER :
     /\ InEnvelope(x, y, PixX(d, i), PixY(d, i))
     /\ ~InEnvelope(nx, ny, PixX(d, i), PixY(d, i))}

\* C5: a render at a cursor position other than the previously rendered one
\* leaves every pixel of the old envelope outside the new envelope equal to
\* the cursor-free composition
C5_VacatedEnvelopeIsComposition ==
  [][(/\ op'.name = "ds_render"
      /\ ds.last_cursor_x >= 0 /\ ds.last_cursor_y >= 0
      /\ <<ds.mouse_x, ds.mouse_y>> # <<ds.last_cursor_x, ds.last_cursor_y>>)
     => \A i \in VacatedPixels(ds', ds.last_cursor_x, ds.last_cursor_y,
                               ds.mouse_x, ds.mouse_y) :
           ds'.BACKBUFFER[i] = ComposedPixel(ds', i)]_vars

IsSortedByZ(d, seq) ==
  \A i, j \in 1..Len(seq) :
     i < j => d.SURFACE_POOL[seq[i]].z_order <= d.SURFACE_POOL[seq[j]].z_order

PaintedSurfaces(d) == [i \in 1..Len(d.painted) |-> d.painted[i].surface]

\* the dirty rectangle a render of d composes: the whole screen on a full
\* redraw, the accumulated rectangle otherwise
RenderedDirty(d) ==
  IF ~d.backbuffer_initialized \/ d.full_redraw \/ ~d.desktop_cleared
  THEN DirtyRect(0, 0, d.framebuffer.width, d.framebuffer.height, TRUE)
  ELSE d.dirty_rect

\* C6: the surface sequence is sorted ascending by z-order after every
\* operation, and the surfaces a render paints are painted lowest z first
\* and every surface that intersects the dirty rectangle is painted
C6_SortedByZ ==
  /\ [](/\ IsSortedByZ(ds, ds.surfaces)
        /\ op.name = "ds_render" => IsSortedByZ(ds, PaintedSurfaces(ds)))
  /\ [][op'.name = "ds_render" =>
          \A k \in 1..Len(ds.surfaces) :
             surface_overlaps_dirty(ds, ds.surfaces[k], RenderedDirty(ds)) =>
                \E i \in 1..Len(ds'.painted) :
                   ds'.painted[i].surface = ds.surfaces[k]]_vars

\* two surfaces created highest z first, both painted by a render
C6_Witness ==
  /\ op.name = "ds_render"
  /\ ds.surfaces = <<1, 0>>
  /\ PaintedSurfaces(ds) = <<1, 0>>
  /\ ds.SURFACE_POOL[1].z_order < ds.SURFACE_POOL[0].z_order


(***************************************************************************)
(* Properties of resizing and dragging, checked under SpecEdge and Spec    *)
(***************************************************************************)

\* C11: after every handle_mouse step taken in the resizing state the
\* resized window is at least MIN_WIDTH wide and MIN_HEIGHT high
C11_ResizeKeepsMinimumSize ==
  [][(op'.name = "handle_mouse" /\ wm.resizing_window # NULL) =>
       /\ ~U32Lt(wm'.WINDOW_POOL[wm.resizing_window].width, MIN_WIDTH)
       /\ ~U32Lt(wm'.WINDOW_POOL[wm.resizing_window].height, MIN_HEIGHT)]_vars

\* the geometry a resizing step with the pointer at (mouse_x, mouse_y) asks for
RequestedGeometry(mouse_x, mouse_y) ==
  ResizeGeometry(wm, wm.WINDOW_POOL[wm.resizing_window], mouse_x, mouse_y)

\* C12: a resizing step that asks for more than MAX_BUFFER_SIZE pixels, which
\* set_surface_size refuses, leaves the window's x, y, width, height and
\* buffer as they were
C12_FailedResizeLeavesWindow ==
  [][(/\ op'.name = "handle_mouse" /\ op'.left
      /\ wm.resizing_window # NULL
      /\ TooLarge(RequestedGeometry(op'.x, op'.y).width,
                  RequestedGeometry(op'.x, op'.y).height))
     => /\ WindowGeometry(wm', wm.resizing_window)
             = WindowGeometry(wm, wm.resizing_window)
        /\ wm'.WINDOW_POOL[wm.resizing_window].buffer
             = wm.WINDOW_POOL[wm.resizing_window].buffer]_vars

\* C13: after every handle_mouse step that drags a window which is not
\* maximized, the window lies inside the framebuffer
C13_DraggedWindowIsVisible ==
  [][(/\ op'.name = "handle_mouse" /\ op'.left
      /\ wm.dragging_window # NULL
      /\ ~wm.WINDOW_POOL[wm.dragging_window].maximized)
     => /\ wm'.WINDOW_POOL[wm.dragging_window].x >= 0
        /\ wm'.WINDOW_POOL[wm.dragging_window].y >= 0
        /\ wm'.WINDOW_POOL[wm.dragging_window].x
             + wm'.WINDOW_POOL[wm.dragging_window].width <= wm.framebuffer.width
        /\ wm'.WINDOW_POOL[wm.dragging_window].y
             + wm'.WINDOW_POOL[wm.dragging_window].height <= wm.framebuffer.height]_vars


(***************************************************************************)
(* Properties of the window pool                                           *)
(***************************************************************************)

\* C14: an occupied slot k of the window pool holds the window with id k (so
\* no two live windows share an id), the occupied slots are those of the
\* windows in the window list, and destroy_window(w) frees the slot of w and
\* changes no other cell of the pool
C14_IdsAreSlots ==
  /\ [](/\ \A k \in Windows : wm.WINDOW_POOL[k].live => wm.WINDOW_POOL[k].id = k
        /\ {wm.windows[i] : i \in 1..Len(wm.windows)} = LiveWindows
        /\ Len(wm.windows) = Cardinality(LiveWindows))
  /\ [][op'.name = "destroy_window" =>
          /\ wm.WINDOW_POOL[op'.window].live
          /\ ~wm'.WINDOW_POOL[op'.window].live
          /\ \A k \in Windows \ {op'.window} :
                wm'.WINDOW_POOL[k] = wm.WINDOW_POOL[k]]_vars

\* the first of two windows was destroyed and its slot is free
C14_Witness ==
  /\ op.name = "destroy_window" /\ op.window = 0
  /\ LiveWindows = {1}
  /\ wm.windows = <<1>>

\* C15: with 32 live windows create_window returns NULL and leaves the
\* window manager and the display server as they were: no cell of the window
\* pool or the surface pool, nor the window list, the focus or any z-order
\* changes
C15_FullPoolRefusesCreate ==
  [][(op'.name = "create_window" /\ Cardinality(LiveWindows) = N_WIN) =>
       /\ op'.ret = NULL
       /\ wm' = wm
       /\ ds' = ds]_vars

\* a create_window call was refused on a full pool
C15_Witness ==
  /\ op.name = "create_window" /\ op.ret = NULL
  /\ Cardinality(LiveWindows) = N_WIN
  /\ window_count(State) = N_WIN


\* C16: after destroy_window(w), in any pointer state, neither the focused,
\* the dragging nor the resizing reference of the window manager points at
\* the slot of w
C16_DestroyClearsReferences ==
  [][op'.name = "destroy_window" =>
       /\ wm'.focused_window # op'.window
       /\ wm'.dragging_window # op'.window
       /\ wm'.resizing_window # op'.window]_vars

StalePixels(d) ==
  {p \in (0..(d.framebuffer.width - 1)) \X (0..(d.framebuffer.height - 1)) :
     d.fb_mem[p[2] * (d.framebuffer.pitch \div 4) + p[1]] #
       d.BACKBUFFER[p[2] * d.backbuffer_width + p[1]]}

\* C18: the rectangle render() flushes contains every on-screen pixel at
\* which the backbuffer differs from the framebuffer, so after render() the
\* framebuffer equals the backbuffer at every on-screen pixel
C18_FramebufferEqualsBackbuffer ==
  op.name = "ds_render" => StalePixels(ds) = {}

\* the screen positions of the surface's intersection with the framebuffer
OnScreenPart(d, surface) ==
  LET s == d.SURFACE_POOL[surface]
  IN {p \in (0..(d.framebuffer.width - 1)) \X (0..(d.framebuffer.height - 1)) :
        /\ p[1] >= s.x /\ p[1] < s.x + s.width
        /\ p[2] >= s.y /\ p[2] < s.y + s.height}

\* C19: a surface that render() paints contributes exactly the pixels of its
\* intersection with the framebuffer bounds, also when it extends past the
\* left or the top edge of the screen
C19_PaintsVisiblePart ==
  op.name = "ds_render" =>
    \A i \in 1..Len(ds.painted) :
       ds.painted[i].pixels = Cardinality(OnScreenPart(ds, ds.painted[i].surface))

\* C20: immediately after a successful create_surface every cell of the new
\* surface's buffer is zero, also when the slot was used before by a
\* destroyed surface whose buffer had been drawn into
C20_NewSurfaceBufferIsZero ==
  (op.name = "ds_create_surface" /\ op.ret # NULL) =>
    LET buffer == ds.BUFFER_POOL[ds.SURFACE_POOL[op.ret].buffer]
    IN \A i \in DOMAIN buffer : buffer[i] = 0

(***************************************************************************)
(* Properties of the drawing entry points and of update, under SpecDraw.   *)
(***************************************************************************)
DrawingCalls ==
  {"invalidate_window", "clear_window", "draw_pixel_to_window",
   "draw_filled_rect_to_window", "draw_rect_to_window", "draw_text_to_window"}

\* the tracked cells of window w's buffer
WindowBuffer(d, m, w) == d.BUFFER_POOL[m.WINDOW_POOL[w].buffer]

\* the dirty rectangle is valid and contains the rectangle (x, y, width, height)
DirtyCovers(dirty, x, y, width, height) ==
  /\ dirty.valid
  /\ dirty.x <= x /\ x + width <= dirty.x + dirty.width
  /\ dirty.y <= y /\ y + height <= dirty.y + dirty.height

\* C21: invalidate_window, clear_window and the drawing primitives, when
\* they change the window's invalidation state or a cell of its buffer, leave
\* the accumulated dirty rectangle containing the window area (for a changed
\* cell: at least the screen position of the cell)
C21_DrawingMarksDirty ==
  [][op'.name \in DrawingCalls =>
       LET w == wm.WINDOW_POOL[op'.window]
       IN /\ wm'.WINDOW_POOL[op'.window].invalidated # w.invalidated =>
               DirtyCovers(ds'.dirty_rect, w.x, w.y, w.width, w.height)
          /\ \A i \in DOMAIN WindowBuffer(ds, wm, op'.window) :
               WindowBuffer(ds', wm', op'.window)[i] #
                 WindowBuffer(ds, wm, op'.window)[i] =>
                   DirtyCovers(ds'.dirty_rect, w.x + (i % w.width),
                               w.y + (i \div w.width), 1, 1)]_vars

(***************************************************************************)
(* Properties of the display server's surface setters, under SpecDS.       *)
(***************************************************************************)
\* C22: set_surface_position is idempotent (a second identical call changes
\* neither the surface position nor the accumulated dirty rectangle), and a
\* call with the surface's current position leaves the dirty rectangle and
\* its validity bit unchanged
C22_SetPositionIdempotent ==
  [][op'.name = "ds_set_surface_position" =>
       LET again == set_surface_position(ds', op'.surface, op'.x, op'.y)
           old == ds.SURFACE_POOL[op'.surface]
       IN /\ again.SURFACE_POOL = ds'.SURFACE_POOL
          /\ again.dirty_rect = ds'.dirty_rect
          /\ (old.x = op'.x /\ old.y = op'.y) => ds'.dirty_rect = ds.dirty_rect]_vars

(***************************************************************************)
(* Properties of the idle dispatch of handle_mouse, under Spec.            *)
(***************************************************************************)
\* no window of m contains the point
OutsideEveryWindow(m, x, y) ==
  \A i \in 1..Len(m.windows) :
     LET w == m.WINDOW_POOL[m.windows[i]]
     IN ~Contains(w, x, y)

\* C23: handle_mouse(mx, my, false) in idle with the pointer outside every
\* window changes no surface (pool and sequence) and no window; of the
\* display server only the cursor position and the dirty rectangle may change
C23_IdleMoveOutsideIsNoOp ==
  [][(/\ op'.name = "handle_mouse" /\ ~op'.left
      /\ IsIdle(wm)
      /\ OutsideEveryWindow(wm, op'.x, op'.y)) =>
       /\ ds'.SURFACE_POOL = ds.SURFACE_POOL
       /\ ds'.surfaces = ds.surfaces
       /\ wm'.WINDOW_POOL = wm.WINDOW_POOL
       /\ wm'.windows = wm.windows
       /\ [ds' EXCEPT !.mouse_x = ds.mouse_x, !.mouse_y = ds.mouse_y,
                      !.dirty_rect = ds.dirty_rect] = ds]_vars

\* the pointer was moved, button up, to a point outside the one live window
C23_Witness ==
  /\ op.name = "handle_mouse" /\ ~op.left
  /\ IsIdle(wm)
  /\ Len(wm.windows) = 1
  /\ OutsideEveryWindow(wm, op.x, op.y)
  /\ ds.mouse_x = op.x /\ ds.mouse_y = op.y
  /\ ds.dirty_rect.valid

\* the u32 product width * height is above the capacity of a surface buffer
ExceedsCapacity(width, height) ==
  \/ MulU32(width, height).overflows
  \/ U32Gt(MulU32(width, height).value, MAX_BUFFER_SIZE)

\* C24: set_surface_size with a size above the buffer capacity changes
\* neither the surface nor the dirty rectangle, and every live surface has
\* width * height <= MAX_BUFFER_SIZE, the product taken without wrap-around
C24_OversizeRefused ==
  /\ [](\A s \in LiveSurfaces :
          ~ExceedsCapacity(ds.SURFACE_POOL[s].width, ds.SURFACE_POOL[s].height))
  /\ [][(op'.name = "ds_set_surface_size"
          /\ ExceedsCapacity(op'.width, op'.height)) =>
          /\ ds'.SURFACE_POOL = ds.SURFACE_POOL
          /\ ds'.dirty_rect = ds.dirty_rect]_vars

(***************************************************************************)
(* Properties of update, under SpecDraw.                                   *)
(***************************************************************************)
\* C25: update() redraws the buffer of a window (background and chrome) if
\* and only if the window is not minimized and was invalidated; such a
\* window ends with invalidated = FALSE and its surface is painted by the
\* render of the call; the buffer of every other window is left unchanged
C25_UpdateRedrawsInvalidated ==
  [][op'.name = "update" =>
       \A w \in LiveWindows :
          IF ~wm.WINDOW_POOL[w].minimized /\ wm.WINDOW_POOL[w].invalidated
          THEN /\ ~wm'.WINDOW_POOL[w].invalidated
               /\ WindowBuffer(ds', wm', w) =
                    WindowBuffer(RenderChrome(State, w, FALSE).ds, wm, w)
               /\ \E i \in 1..Len(ds'.painted) :
                     ds'.painted[i].surface = wm.WINDOW_POOL[w].surface
          ELSE WindowBuffer(ds', wm', w) = WindowBuffer(ds, wm, w)]_vars

\* the non-minimized live windows of m whose rectangle contains the point
WindowsAt(m, x, y) ==
  {w \in Windows : /\ m.WINDOW_POOL[w].live
                    /\ ~m.WINDOW_POOL[w].minimized
                    /\ Contains(m.WINDOW_POOL[w], x, y)}

\* those of them no other one is above
TopWindowsAt(m, x, y) ==
  {w \in WindowsAt(m, x, y) :
     \A k \in WindowsAt(m, x, y) :
        m.WINDOW_POOL[k].z_order <= m.WINDOW_POOL[w].z_order}

\* the press acted on window w: it closed, minimized, maximized or
\* unmaximized it, or it focused it
PressActedOn(w) ==
  \/ ~wm'.WINDOW_POOL[w].live
  \/ wm'.WINDOW_POOL[w].minimized # wm.WINDOW_POOL[w].minimized
  \/ wm'.WINDOW_POOL[w].maximized # wm.WINDOW_POOL[w].maximized
  \/ wm'.focused_window = w /\ wm'.WINDOW_POOL[w].z_order > wm.WINDOW_POOL[w].z_order

BorderEdge(w, x, y) ==
  LET on_left == x - w.x < RESIZE_BORDER
      on_right == x - w.x >= w.width - RESIZE_BORDER
      on_top == y - w.y < RESIZE_BORDER
      on_bottom == y - w.y >= w.height - RESIZE_BORDER
  IN IF on_top /\ on_left /\ ~on_right /\ ~on_bottom THEN RE_TopLeft
     ELSE IF on_top /\ on_right /\ ~on_left /\ ~on_bottom THEN RE_TopRight
     ELSE IF y - w.y < TITLE_BAR_HEIGHT THEN RE_None
     ELSE IF on_bottom /\ on_left /\ ~on_right THEN RE_BottomLeft
     ELSE IF on_bottom /\ on_right /\ ~on_left THEN RE_BottomRight
     ELSE IF on_bottom /\ ~on_left /\ ~on_right THEN RE_Bottom
     ELSE IF on_left /\ ~on_right /\ ~on_bottom THEN RE_Left
     ELSE IF on_right /\ ~on_left /\ ~on_bottom THEN RE_Right
     ELSE RE_None

\* C27: a press in idle inside the outer 8 pixels of a RESIZABLE,
\* non-maximized window enters the resizing state with the matching edge,
\* the four corners included; a window that lacks RESIZABLE or is maximized
\* never enters resizing by a press
C27_BorderPressStartsResize ==
  [][(/\ op'.name = "handle_mouse" /\ op'.left /\ ~wm.last_mouse_button
      /\ IsIdle(wm)
      /\ WindowsAt(wm, op'.x, op'.y) # {}) =>
       \A t \in TopWindowsAt(wm, op'.x, op'.y) :
          IF /\ HasFlag(wm.WINDOW_POOL[t].flags, WINDOW_RESIZABLE)
             /\ ~wm.WINDOW_POOL[t].maximized
          THEN BorderEdge(wm.WINDOW_POOL[t], op'.x, op'.y) # RE_None =>
                 /\ wm'.resizing_window = t
                 /\ wm'.resize_edge = BorderEdge(wm.WINDOW_POOL[t], op'.x, op'.y)
          ELSE wm'.resizing_window = NULL]_vars

\* bit WINDOW_MOVABLE of the window's flags is set
IsMovable(w) == (w.flags \div WINDOW_MOVABLE) % 2 = 1

MinimizedWindows == {w \in LiveWindows : wm.WINDOW_POOL[w].minimized}

\* C29: every minimized window is below every non-minimized window in
\* z-order after every operation, a newly minimized window is below all
\* windows minimized earlier, and a press never acts on a minimized window
C29_MinimizedBand ==
  /\ [](\A m \in MinimizedWindows : \A w \in LiveWindows \ MinimizedWindows :
          wm.WINDOW_POOL[m].z_order < wm.WINDOW_POOL[w].z_order)
  /\ [][\A n \in MinimizedWindows' \ MinimizedWindows :
          \A m \in MinimizedWindows \cap MinimizedWindows' :
             wm'.WINDOW_POOL[n].z_order < wm'.WINDOW_POOL[m].z_order]_vars
  /\ [][op'.name = "handle_mouse" =>
          \A m \in MinimizedWindows :
             wm'.WINDOW_POOL[m] = wm.WINDOW_POOL[m]]_vars

LeftEdges == {RE_Left, RE_TopLeft, RE_BottomLeft}
RightEdges == {RE_Right, RE_TopRight, RE_BottomRight}
TopEdges == {RE_Top, RE_TopLeft, RE_TopRight}
BottomEdges == {RE_Bottom, RE_BottomLeft, RE_BottomRight}

\* C30: after every resizing step the window's origin is not negative when
\* a left or top edge is resized, and the window does not pass the
\* framebuffer when a right or bottom edge is resized
C30_ResizeStaysOnScreen ==
  [][(op'.name = "handle_mouse" /\ op'.left /\ wm.resizing_window # NULL) =>
       LET w == wm'.WINDOW_POOL[wm.resizing_window]
       IN /\ wm.resize_edge \in LeftEdges => w.x >= 0
          /\ wm.resize_edge \in TopEdges => w.y >= 0
          /\ wm.resize_edge \in RightEdges =>
               w.x + w.width <= wm.framebuffer.width
          /\ wm.resize_edge \in BottomEdges =>
               w.y + w.height <= wm.framebuffer.height]_vars

(***************************************************************************)
(* Properties of the accumulated dirty rectangle, checked under SpecDS     *)
(***************************************************************************)
\* the far edge x + width of a span whose origin is an i32 and whose width is
\* a u32, as <<multiple of 2^16, remainder>>, taken without wrapping
FarEdge(x, width) ==
  LET hi == (x \div 65536) + (width \div 65536) + (IF width < 0 THEN 65536 ELSE 0)
      lo == (x % 65536) + (width % 65536)
  IN <<hi + (lo \div 65536), lo % 65536>>

EdgeLe(a, b) == a[1] < b[1] \/ (a[1] = b[1] /\ a[2] <= b[2])

RectContains(outer, r) ==
  /\ outer.x <= r.x
  /\ outer.y <= r.y
  /\ EdgeLe(FarEdge(r.x, r.width), FarEdge(outer.x, outer.width))
  /\ EdgeLe(FarEdge(r.y, r.height), FarEdge(outer.y, outer.height))

\* `box` contains every rectangle of `rects` and each of its four sides
\* lies on a side of one of them
SmallestContaining(box, rects) ==
  /\ \A r \in rects : RectContains(box, r)
  /\ \E r \in rects : box.x = r.x
  /\ \E r \in rects : box.y = r.y
  /\ \E r \in rects : FarEdge(box.x, box.width) = FarEdge(r.x, r.width)
  /\ \E r \in rects : FarEdge(box.y, box.height) = FarEdge(r.y, r.height)

\* the rectangles accumulated before a step: the dirty rectangle, when valid
Accumulated(d) == IF d.dirty_rect.valid THEN {d.dirty_rect} ELSE {}

\* C31: between two renders the accumulated dirty rectangle is the smallest
\* axis-aligned rectangle containing every rectangle passed to mark_dirty
\* since the last render, whatever the order of the marks: each mark_dirty
\* leaves the smallest rectangle containing the rectangle accumulated so far
\* and the one passed, and two marks give the same rectangle in either order
C31_DirtyIsBoundingBox ==
  /\ [](\A r1 \in DirtyRects : \A r2 \in DirtyRects :
          mark_dirty(mark_dirty(ds, r1[1], r1[2], r1[3], r1[4]),
                     r2[1], r2[2], r2[3], r2[4]).dirty_rect
          = mark_dirty(mark_dirty(ds, r2[1], r2[2], r2[3], r2[4]),
                       r1[1], r1[2], r1[3], r1[4]).dirty_rect)
  /\ [][op'.name = "ds_mark_dirty" =>
          /\ ds'.dirty_rect.valid
          /\ SmallestContaining(
               ds'.dirty_rect,
               Accumulated(ds) \cup
                 {DirtyRect(op'.x, op'.y, op'.width, op'.height, TRUE)})]_vars

(***************************************************************************)
(* Further properties of the window manager, checked under Spec            *)
(***************************************************************************)
\* C32: every live window has width * height <= MAX_SURFACE_BUFFER
\* (800 * 600) after any sequence of create, drag, resize, maximize and
\* unmaximize, so that every cell py * width + px of the window lies in
\* its own buffer slot
C32_WindowFitsBuffer ==
  \A i \in 1..Len(wm.windows) :
     LET w == wm.WINDOW_POOL[wm.windows[i]]
     IN ~U32Gt(MulU32(w.width, w.height).value, MAX_BUFFER_SIZE)

\* C33: the pointer state is exactly one of idle, dragging or resizing: the
\* dragging-window and resizing-window references are never both set, and
\* resize_edge is None whenever no window is being resized
C33_OnePointerState ==
  /\ ~(wm.dragging_window # NULL /\ wm.resizing_window # NULL)
  /\ wm.resizing_window = NULL => wm.resize_edge = RE_None

\* a release has ended a resize that enlarged a window
C33_Witness ==
  /\ op.name = "handle_mouse" /\ ~op.left
  /\ IsIdle(wm) /\ wm.resize_edge = RE_None
  /\ \E i \in 1..Len(wm.windows) :
        LET w == wm.WINDOW_POOL[wm.windows[i]]
        IN ~w.maximized /\ w.width > w.orig_width

\* C34: after every WM operation each live window's geometry and z-order
\* mirror its surface: window (x, y, width, height, z_order) equals
\* surface (x, y, width, height, z_order)
C34_WindowMirrorsSurface ==
  \A i \in 1..Len(wm.windows) :
     LET w == wm.WINDOW_POOL[wm.windows[i]]
         s == ds.SURFACE_POOL[w.surface]
     IN <<w.x, w.y, w.width, w.height, w.z_order>>
        = <<s.x, s.y, s.width, s.height, s.z_order>>

\* C35: the window sequence agrees with z-order: in every reachable state the
\* non-minimized windows appear in the ordered window sequence in strictly
\* ascending z-order, so that the window hit first by the top-to-bottom click
\* scan is the one composited on top
C35_SequenceAgreesWithZOrder ==
  \A i \in 1..Len(wm.windows) : \A j \in 1..Len(wm.windows) :
     LET a == wm.WINDOW_POOL[wm.windows[i]]
         b == wm.WINDOW_POOL[wm.windows[j]]
     IN (i < j /\ ~a.minimized /\ ~b.minimized) => a.z_order < b.z_order

\* C36: windows and surfaces stay in one-to-one correspondence when only
\* the WM creates surfaces: every live window references a distinct live
\* surface, there are as many live surfaces as live windows, and the
\* surface_count of the display server is the number of occupied pool slots
C36_WindowsMatchSurfaces ==
  /\ \A i \in 1..Len(wm.windows) :
        LET w == wm.WINDOW_POOL[wm.windows[i]]
        IN /\ w.surface \in 0..(N_SURF - 1)
           /\ ds.SURFACE_POOL[w.surface].live
           /\ \E k \in 1..Len(ds.surfaces) : ds.surfaces[k] = w.surface
           /\ \A j \in 1..Len(wm.windows) :
                 wm.WINDOW_POOL[wm.windows[j]].surface = w.surface => j = i
  /\ surface_count(ds) = window_count([wm |-> wm, ds |-> ds])
  /\ surface_count(ds) = Cardinality({s \in 0..(N_SURF - 1) : ds.SURFACE_POOL[s].live})

\* with one window destroyed, the display server has refused the surface of
\* a new window although the window pool has room
C36_Witness ==
  /\ op.name = "create_window" /\ op.ret = NULL
  /\ ~wm.WINDOW_POOL[0].live
  /\ Len(wm.windows) = N_WIN - 1
  /\ surface_count(ds) = N_SURF - 1

(***************************************************************************)
(* Further properties of resizing, checked under SpecEdge                  *)
(***************************************************************************)
\* C37: during a resize by the Left edge (and the left part of BottomLeft)
\* the window's right edge x + width stays where it was, and during a
\* resize by the Right or Bottom edge the window's origin (x, y) is
\* unchanged, as long as no minimum-size or framebuffer clamp applies
C37_ResizeKeepsOppositeEdge ==
  [][(/\ op'.name = "handle_mouse" /\ op'.left
      /\ wm.resizing_window # NULL
      /\ wm.WINDOW_POOL[wm.resizing_window].live
      /\ wm'.WINDOW_POOL[wm.resizing_window].live) =>
       LET w == wm.WINDOW_POOL[wm.resizing_window]
           r == wm'.WINDOW_POOL[wm.resizing_window]
       IN /\ (/\ wm.resize_edge \in {RE_Left, RE_BottomLeft}
              /\ r.x > 0 /\ r.width > MIN_WIDTH) =>
                r.x + r.width = w.x + w.width
          /\ (/\ wm.resize_edge \in {RE_Right, RE_Bottom}
              /\ r.width > MIN_WIDTH /\ r.height > MIN_HEIGHT
              /\ r.x + r.width < wm.framebuffer.width
              /\ r.y + r.height < wm.framebuffer.height) =>
                (r.x = w.x /\ r.y = w.y)]_vars

(***************************************************************************)
(* Properties of the GPU command ring, checked under SpecGPU               *)
(***************************************************************************)
IsPrefix(a, b) == Len(a) <= Len(b) /\ a = SubSeq(b, 1, Len(a))

ReadsBack(written, call) ==
  \A w \in written :
     w[1] = call.file =>
        call.ret /\ call.buffer = w[2] /\ call.size = Len(w[2])

RejectsOversize(before, after, call) ==
  call.size > MAX_FILE_SIZE =>
     /\ ~call.ret
     /\ \A i \in 0..(MAX_FILES - 1) :
           /\ after.FILE_POOL[i].data = before.FILE_POOL[i].data
           /\ after.FILE_POOL[i].size = before.FILE_POOL[i].size

C39_WriteReadRoundTrip ==
  [][/\ op'.name = "fs_read_file" => ReadsBack(fs.written, op')
     /\ op'.name = "fs_write_file" => RejectsOversize(fs, fs', op')]_vars

\* C40: in every reachable state at most MAX_FILES slots are used and no two
\* used slots hold the same stored name (a name is stored as its first
\* MAX_FILENAME_LENGTH characters at most); create_file returns false and
\* changes no slot when a used slot already holds the name or every slot is
\* used; delete_file frees the slot that holds the name and changes no other
StoredName(file) ==
  LET bytes == [k \in 1..(MAX_FILENAME_LENGTH + 1) |->
                  IF k <= MAX_FILENAME_LENGTH THEN file.name[k - 1] ELSE 0]
  IN SubSeq(bytes, 1, strlen(bytes))

Truncated(name) == SubSeq(name, 1, Min(Len(name), MAX_FILENAME_LENGTH))

UsedSlots(f) == {i \in 0..(MAX_FILES - 1) : f.FILE_POOL[i].used}

Holding(f, name) ==
  {i \in UsedSlots(f) : StoredName(f.FILE_POOL[i]) = Truncated(name)}

DistinctStoredNames(f) ==
  \A i \in UsedSlots(f) : \A j \in UsedSlots(f) :
     i # j => StoredName(f.FILE_POOL[i]) # StoredName(f.FILE_POOL[j])

CreateRefused(before, after, call) ==
  (Holding(before, call.file) # {} \/ UsedSlots(before) = 0..(MAX_FILES - 1)) =>
     ~call.ret /\ after.FILE_POOL = before.FILE_POOL

DeleteFrees(before, after, call) ==
  /\ call.ret = (Holding(before, call.file) # {})
  /\ UsedSlots(after) = UsedSlots(before) \ Holding(before, call.file)
  /\ \A i \in UsedSlots(after) : after.FILE_POOL[i] = before.FILE_POOL[i]

C40_SlotsHoldDistinctNames ==
  /\ [](Cardinality(UsedSlots(fs)) <= MAX_FILES /\ DistinctStoredNames(fs))
  /\ [][/\ op'.name = "fs_create_file" => CreateRefused(fs, fs', op')
        /\ op'.name = "fs_delete_file" => DeleteFrees(fs, fs', op')]_vars

=============================================================================
